---- MODULE Spec2Model ----
(***************************************************************************)
(* A model of go-ard (github.com/tliron/go-ard): the ARD value model, the  *)
(* deep structural operations (Equals, Copy, Merge) and the extended-JSON  *)
(* (XJSON) codec.                                                          *)
(*                                                                         *)
(* An ARD value is a record with a type tag t, the Go dynamic type of the  *)
(* value: "nil", "bool", "int", "int64", ..., "uint64", ..., "float64",    *)
(* "string", "bytes" ([]byte), "list" (List), "map" (Map) and "smap"       *)
(* (StringMap), and one more field for its content: b for a boolean, n for *)
(* a number, s for a string, bytes for a byte sequence, list for the       *)
(* sequence of a List, map for the function from key values to values of a *)
(* Map, smap for the function from strings to values of a StringMap.       *)
(***************************************************************************)
EXTENDS Integers, Sequences, FiniteSets, TLC

VARIABLES
    phase,      \* the step the current scenario is at
    a, b,       \* Equals: the two arguments
    equal,      \* Equals: the outcome of the call
    value,      \* XJSON: the value handed to PackXJSON
    packed,     \* XJSON: the result of PackXJSON
    wire,       \* XJSON: the tree json.Decoder yields for the marshalled form
    unpacked,   \* XJSON: the result of UnpackXJSON
    useStringMaps, \* XJSON: the flag handed to ReadXJSON / UnpackXJSON
    heap,       \* Merge: the maps and backing arrays allocated so far
    target,     \* Merge: the target argument of the latest call
    source,     \* Merge: the source argument
    appendLists, \* Merge: the flag
    merged,     \* Merge: the value the latest call returned
    heapBefore, \* Merge: the heap when the latest call began
    sourceTree, \* Merge: the content of source when it was built
    merges,     \* Merge: the number of calls made
    changed,    \* Merge: the caller has changed a container of a result
    original,   \* Copy: the value handed to the copy function
    copyMode,       \* Copy: the conversion copyMode of the copy function called
    theCopy,     \* Copy: the value the copy function returned
    originalTree, \* Copy: the content of original when it was built
    copiedTree, \* Copy: the content of theCopy when the call returned
    side,       \* Copy: the tree the caller changes afterwards
    changes,    \* Copy: the number of changes made afterwards
    nodes,      \* Node: the node objects allocated so far, NoNode the first
    nodesBefore, \* Node: the nodes when the latest call began
    held,       \* Node: the nodes the caller holds (the results of its calls)
    call,       \* Node: the latest call, what it was handed and what it returned
    ops,        \* Node: the number of calls made
    readEntry,  \* Reading: the function called
    readFormat, \* Reading: the format identifier it is handed
    readLocate, \* Reading: the locate flag
    readTree,   \* Reading: what the decoder of the format yields for the input
    readResult, \* Reading: what the call returned
    reflector,  \* Reflector: the Reflector, with its flags and its cache of field tables
    instance,   \* Reflector: the struct instance that is unpacked
    stringMaps, \* Reflector: UnpackStringMaps is called, not Unpack
    ardValue,   \* Reflector: the value Unpack returned, or the value handed to Pack
    packTarget, \* Reflector: what the pointer handed to Pack points to, before the call
    packResult, \* Reflector: the error Pack returned and what the pointer points to then
    rangeReversed,\* Reflector: the order in which range visits the keys of a map
    sharedReflector, \* Cache: the Reflector the goroutines share
    cachePc,    \* Cache: where each goroutine is in newReflectFields
    cacheType,  \* Cache: the type each goroutine resolves
    cacheLocal, \* Cache: the table each goroutine is filling
    cacheIndex, \* Cache: the field each goroutine comes to next
    cacheReturned, \* Cache: the type and table of the latest call each goroutine returned from
    cacheCalls, \* Cache: the number of calls each goroutine has returned from
    yamlNodes,  \* Locate: the nodes of the YAML document, the document node the first
    locatePath, \* Locate: the path to locate
    locateResult,\* Locate: the line, the column and the flag Locate returned
    convertInput, \* Convert: the value handed to the conversion
    convertMode, \* Convert: the conversion called
    convertTree, \* Convert: the content of the input when it was built
    convertResult \* Convert: the value and the flag the conversion returned

vars == <<phase, a, b, equal, value, packed, wire, unpacked, useStringMaps,
          heap, target, source, appendLists, merged, heapBefore, sourceTree,
          merges, changed, original, copyMode, theCopy, originalTree, copiedTree,
          side, changes, nodes, nodesBefore, held, call, ops,
          readEntry, readFormat, readLocate, readTree, readResult,
          reflector, instance, stringMaps, ardValue, packTarget, packResult, rangeReversed,
          sharedReflector, cachePc, cacheType, cacheLocal, cacheIndex, cacheReturned, cacheCalls,
          yamlNodes, locatePath, locateResult,
          convertInput, convertMode, convertTree, convertResult>>
equalsVars == <<a, b, equal>>
xjsonVars == <<value, packed, wire, unpacked, useStringMaps>>
mergeVars == <<heap, target, source, appendLists, merged, heapBefore, sourceTree,
               merges, changed>>
copyVars == <<original, copyMode, theCopy, originalTree, copiedTree, side, changes>>
nodeVars == <<nodes, nodesBefore, held, call, ops>>
readVars == <<readEntry, readFormat, readLocate, readTree, readResult>>
reflectVars == <<reflector, instance, stringMaps, ardValue, packTarget, packResult, rangeReversed>>
cacheVars == <<sharedReflector, cachePc, cacheType, cacheLocal, cacheIndex, cacheReturned, cacheCalls>>
locateVars == <<yamlNodes, locatePath, locateResult>>
convertVars == <<convertInput, convertMode, convertTree, convertResult>>

\* The placeholder held by a variable no call has written yet.
None == [t |-> "none"]

(***************************************************************************)
(* Bounds                                                                  *)
(***************************************************************************)
\* Longest List and largest Map/StringMap among the generated inputs.
MaxLen == 2
\* Width of the model's widest integers (Go: 64).
IntBits == 8

MinInt64 == -(2 ^ (IntBits - 1))
MaxInt64 == (2 ^ (IntBits - 1)) - 1
MaxUint64 == (2 ^ IntBits) - 1

(***************************************************************************)
(* Values                                                                  *)
(***************************************************************************)
Nil == [t |-> "nil"]
Bool(x) == [t |-> "bool", b |-> x]
Number(type, x) == [t |-> type, n |-> x]
GoInt(x) == Number("int", x)
Int64(x) == Number("int64", x)
Int8(x) == Number("int8", x)
Uint64(x) == Number("uint64", x)
Uint8(x) == Number("uint8", x)
Float64(x) == Number("float64", x)
Str(x) == [t |-> "string", s |-> x]
Bytes(x) == [t |-> "bytes", bytes |-> x]
List(x) == [t |-> "list", list |-> x]
Map(x) == [t |-> "map", map |-> x]
StringMap(x) == [t |-> "smap", smap |-> x]

SignedTypes == {"int", "int64", "int32", "int16", "int8"}
UnsignedTypes == {"uint", "uint64", "uint32", "uint16", "uint8"}

IsList(x) == x.t = "list"
IsMap(x) == x.t = "map"
IsStringMap(x) == x.t = "smap"
IsContainer(x) == x.t \in {"list", "map", "smap"}
\* The entries of a Map or StringMap, as a function from its keys.
Entries(x) == IF x.t = "map" THEN x.map ELSE x.smap
Keys(x) == DOMAIN Entries(x)
IsString(x) == x.t = "string"

\* The one-entry function k :> x, and the empty map.
Single(k, x) == [i \in {k} |-> x]
\* The tree x holds a container of the given variant, at any depth.
RECURSIVE HasVariant(_, _)
HasVariant(x, variant) ==
    \/ x.t = variant
    \/ x.t = "list" /\ \E i \in 1..Len(x.list) : HasVariant(x.list[i], variant)
    \/ x.t \in {"map", "smap"} /\ \E k \in Keys(x) : HasVariant(Entries(x)[k], variant)
Empty == [i \in {} |-> Nil]

\* All sequences over S of length at most n.
SeqsUpTo(S, n) == UNION {[1..i -> S] : i \in 0..n}
\* All functions from a subset of K of at most n elements into S.
FunsUpTo(K, S, n) == UNION {[D -> S] : D \in {X \in SUBSET K : Cardinality(X) <= n}}
\* Lists, Maps and StringMaps of at most n entries with elements from S.
Containers(S, MK, SK, n) ==
    {List(s) : s \in SeqsUpTo(S, n)}
        \cup {Map(f) : f \in FunsUpTo(MK, S, n)}
        \cup {StringMap(f) : f \in FunsUpTo(SK, S, n)}

\* Some enumeration of a finite set as a sequence (Go map iteration order).
RECURSIVE SetToSeq(_)
SetToSeq(S) ==
    IF S = {} THEN <<>>
    ELSE LET x == CHOOSE y \in S : TRUE IN <<x>> \o SetToSeq(S \ {x})

(***************************************************************************)
(* Strings, decimal numbers and Base64                                     *)
(***************************************************************************)
Digits == "0123456789"
\* The i-th character of s (1-based), as a one-character string.
Char(s, i) == SubSeq(s, i, i)
IsDigit(c) == \E d \in 0..9 : Char(Digits, d + 1) = c
DigitValue(c) == CHOOSE d \in 0..9 : Char(Digits, d + 1) = c
HasPrefix(s, prefix) == Len(s) >= Len(prefix) /\ SubSeq(s, 1, Len(prefix)) = prefix

\* strconv.FormatUint(n, 10) and strconv.FormatInt(n, 10).
RECURSIVE FormatUint(_)
FormatUint(n) ==
    IF n < 10 THEN Char(Digits, n + 1)
    ELSE FormatUint(n \div 10) \o Char(Digits, (n % 10) + 1)
FormatInt(n) == IF n < 0 THEN "-" \o FormatUint(-n) ELSE FormatUint(n)

\* The digits of s read as a number, capped above max (an overflow).
RECURSIVE DigitsValue(_, _, _)
DigitsValue(s, acc, max) ==
    IF s = "" THEN acc
    ELSE IF acc > max THEN acc
    ELSE DigitsValue(SubSeq(s, 2, Len(s)), (acc * 10) + DigitValue(Char(s, 1)), max)

\* strconv.ParseUint(s, 10, 64): digits only, no sign, within the width.
ParseUint(s) ==
    IF s = "" \/ \E i \in 1..Len(s) : ~IsDigit(Char(s, i)) THEN [ok |-> FALSE, v |-> 0]
    ELSE LET n == DigitsValue(s, 0, MaxUint64)
         IN IF n > MaxUint64 THEN [ok |-> FALSE, v |-> 0] ELSE [ok |-> TRUE, v |-> n]

\* strconv.ParseInt(s, 10, 64): an optional sign, then digits, within the width.
ParseInt(s) ==
    IF s = "" THEN [ok |-> FALSE, v |-> 0]
    ELSE LET neg == Char(s, 1) = "-"
             signed == Char(s, 1) \in {"+", "-"}
             rest == IF signed THEN SubSeq(s, 2, Len(s)) ELSE s
         IN IF rest = "" \/ \E i \in 1..Len(rest) : ~IsDigit(Char(rest, i))
            THEN [ok |-> FALSE, v |-> 0]
            ELSE LET n == DigitsValue(rest, 0, MaxUint64)
                 IN IF (~neg /\ n > MaxInt64) \/ (neg /\ n > -MinInt64)
                    THEN [ok |-> FALSE, v |-> 0]
                    ELSE [ok |-> TRUE, v |-> IF neg THEN -n ELSE n]

\* The Base64 alphabet of RFC 4648 (base64.StdEncoding), padded with "=".
Base64Alphabet == "ABCDEFGHIJKLMNOPQRSTUVWXYZabcdefghijklmnopqrstuvwxyz0123456789+/"
Base64Char(i) == Char(Base64Alphabet, i + 1)
IsBase64Char(c) == \E i \in 0..63 : Base64Char(i) = c
Base64Index(c) == CHOOSE i \in 0..63 : Base64Char(i) = c

\* util.ToBase64: three bytes to four characters, the last group padded.
RECURSIVE ToBase64(_)
ToBase64(bytes) ==
    IF Len(bytes) = 0 THEN ""
    ELSE IF Len(bytes) = 1 THEN
        Base64Char(bytes[1] \div 4) \o Base64Char((bytes[1] % 4) * 16) \o "=="
    ELSE IF Len(bytes) = 2 THEN
        Base64Char(bytes[1] \div 4)
            \o Base64Char(((bytes[1] % 4) * 16) + (bytes[2] \div 16))
            \o Base64Char((bytes[2] % 16) * 4) \o "="
    ELSE Base64Char(bytes[1] \div 4)
            \o Base64Char(((bytes[1] % 4) * 16) + (bytes[2] \div 16))
            \o Base64Char(((bytes[2] % 16) * 4) + (bytes[3] \div 64))
            \o Base64Char(bytes[3] % 64)
            \o ToBase64(SubSeq(bytes, 4, Len(bytes)))

\* util.FromBase64: groups of four characters, padding in the last group
\* only; anything else is an error.
RECURSIVE FromBase64(_)
FromBase64(s) ==
    IF s = "" THEN [ok |-> TRUE, v |-> <<>>]
    ELSE IF Len(s) < 4 THEN [ok |-> FALSE, v |-> <<>>]
    ELSE LET c1 == Char(s, 1)
             c2 == Char(s, 2)
             c3 == Char(s, 3)
             c4 == Char(s, 4)
             last == Len(s) = 4
             i1 == Base64Index(c1)
             i2 == Base64Index(c2)
             i3 == Base64Index(c3)
             i4 == Base64Index(c4)
             b1 == (i1 * 4) + (i2 \div 16)
             b2 == ((i2 % 16) * 16) + (i3 \div 4)
             b3 == ((i3 % 4) * 64) + i4
         IN IF ~IsBase64Char(c1) \/ ~IsBase64Char(c2) THEN [ok |-> FALSE, v |-> <<>>]
            ELSE IF last /\ c3 = "=" /\ c4 = "=" THEN [ok |-> TRUE, v |-> <<b1>>]
            ELSE IF ~IsBase64Char(c3) THEN [ok |-> FALSE, v |-> <<>>]
            ELSE IF last /\ c4 = "=" THEN [ok |-> TRUE, v |-> <<b1, b2>>]
            ELSE IF ~IsBase64Char(c4) THEN [ok |-> FALSE, v |-> <<>>]
            ELSE LET rest == FromBase64(SubSeq(s, 5, Len(s)))
                 IN IF rest.ok THEN [ok |-> TRUE, v |-> <<b1, b2, b3>> \o rest.v]
                    ELSE [ok |-> FALSE, v |-> <<>>]

\* MapKeyToString (yamlkeys.KeyString): a string key is itself, any other
\* scalar key is printed.
MapKeyToString(key) ==
    CASE key.t = "string" -> key.s
      [] key.t \in SignedTypes -> FormatInt(key.n)
      [] key.t \in UnsignedTypes -> FormatUint(key.n)
      [] key.t = "float64" -> FormatInt(key.n)
      [] key.t = "bool" -> IF key.b THEN "true" ELSE "false"
      [] OTHER -> "<nil>"

(***************************************************************************)
(* Equals (src/unnamed/part_014, lines 88-172)                             *)
(*                                                                         *)
(* A call returns true or false, or panics: Go's == on two interface       *)
(* values of the same uncomparable dynamic type ([]byte) is a run-time     *)
(* panic.  As Go iterates a map in an unspecified order, a call that       *)
(* compares maps can have several outcomes; Equals is the set of them.     *)
(***************************************************************************)
\* a == b on two interface values, the left one not a List, Map or StringMap.
HostEq(x, y) ==
    IF x.t # y.t THEN {"false"}
    ELSE IF x.t = "bytes" THEN {"panic"}
    ELSE {IF x = y THEN "true" ELSE "false"}

\* The outcomes of a loop that returns at the first element whose comparison
\* is not true, over the per-element outcome sets outs, visited in any order.
AnyOrder(outs) ==
    IF \A o \in outs : o = {"true"} THEN {"true"}
    ELSE UNION {o \ {"true"} : o \in outs}

\* The same loop over a sequence of outcome sets, visited in index order.
RECURSIVE InOrder(_)
InOrder(outs) ==
    IF outs = <<>> THEN {"true"}
    ELSE IF Head(outs) = {"true"} THEN InOrder(Tail(outs))
    ELSE (Head(outs) \ {"true"})
            \cup (IF "true" \in Head(outs) THEN InOrder(Tail(outs)) ELSE {})

RECURSIVE Equals(_, _)
EqualsMapsNoKeyCheck(x, y) ==
    IF Cardinality(Keys(x)) # Cardinality(Keys(y)) THEN {"false"}
    ELSE AnyOrder({IF k \in Keys(y) THEN Equals(Entries(x)[k], Entries(y)[k]) ELSE {"true"}
                    : k \in Keys(x)})
\* Two maps of the same variant.
EqualsMaps(x, y) ==
    \* Must have same lengths
    IF Cardinality(Keys(x)) # Cardinality(Keys(y)) THEN {"false"}
    \* Does A have all the keys that are in B?
    ELSE IF \E k \in Keys(y) : k \notin Keys(x) THEN {"false"}
    \* Are all values in A equal to those in B?
    ELSE AnyOrder({IF k \in Keys(y) THEN Equals(Entries(x)[k], Entries(y)[k]) ELSE {"false"}
                    : k \in Keys(x)})
EqualsLists(x, y) ==
    IF Len(x.list) # Len(y.list) THEN {"false"}
    ELSE InOrder([i \in 1..Len(x.list) |-> Equals(x.list[i], y.list[i])])
\* A StringMap seen as the Map with the same keys and values.
AsMap(x) ==
    IF x.t = "smap" THEN Map([k \in {Str(key) : key \in DOMAIN x.smap} |-> x.smap[k.s]]) ELSE x
EqualsCrossVariant(x, y) ==
    IF y.t \in {"map", "smap"} THEN EqualsMaps(AsMap(x), AsMap(y)) ELSE {"false"}
\* The else branch of the type assertion on b: b is not a map of a's variant.
EqualsOtherVariant(x, y) == {"false"}
Equals(x, y) ==
    CASE x.t = "map" -> IF y.t = "map" THEN EqualsMaps(x, y) ELSE EqualsOtherVariant(x, y)
      [] x.t = "smap" -> IF y.t = "smap" THEN EqualsMaps(x, y) ELSE EqualsOtherVariant(x, y)
      [] x.t = "list" -> IF y.t = "list" THEN EqualsLists(x, y) ELSE {"false"}
      [] OTHER -> HostEq(x, y)

(***************************************************************************)
(* Extended JSON (src/xjson.go)                                            *)
(***************************************************************************)
XJSONIntegerCode == "$ard.integer"
XJSONUIntegerCode == "$ard.uinteger"
XJSONBytesCode == "$ard.bytes"
XJSONMapCode == "$ard.map"
\* The four codes, in the order the escape functions and UnpackXJSON try them.
XJSONCodes == <<XJSONIntegerCode, XJSONUIntegerCode, XJSONBytesCode, XJSONMapCode>>
IsXJSONCode(key) == \E i \in 1..4 : XJSONCodes[i] = key

\* The types PackXJSON wraps values in; each has its own MarshalJSON.
XJSONInteger(x) == [t |-> "XJSONInteger", n |-> x]
XJSONUInteger(x) == [t |-> "XJSONUInteger", n |-> x]
XJSONBytes(x) == [t |-> "XJSONBytes", bytes |-> x]
XJSONMap(x) == [t |-> "XJSONMap", map |-> x]

\* A run-time panic in place of a result.
Panic == [t |-> "panic"]

\* f with x stored under key k.
Put(f, k, x) == [i \in (DOMAIN f) \cup {k} |-> IF i = k THEN x ELSE f[i]]

RECURSIVE PackXJSON(_)

\* The key of an escaped one-key map: "$" + code.
EscapedKey(code) == "$" \o code

escapeXjsonMap(map_) ==
    IF Cardinality(DOMAIN map_) = 1 /\ \E i \in 1..4 : Str(XJSONCodes[i]) \in DOMAIN map_
    THEN LET code == XJSONCodes[CHOOSE i \in 1..4 : Str(XJSONCodes[i]) \in DOMAIN map_]
         IN [ok |-> TRUE,
             v |-> StringMap(Single(EscapedKey(code), PackXJSON(map_[Str(code)]).v))]
    ELSE [ok |-> FALSE, v |-> Nil]

escapeXjsonStringMap(map_) ==
    IF Cardinality(DOMAIN map_) = 1 /\ \E i \in 1..4 : XJSONCodes[i] \in DOMAIN map_
    THEN LET code == XJSONCodes[CHOOSE i \in 1..4 : XJSONCodes[i] \in DOMAIN map_]
         IN [ok |-> TRUE,
             v |-> StringMap(Single(EscapedKey(code), PackXJSON(map_[code]).v))]
    ELSE [ok |-> FALSE, v |-> Nil]

\* The key a Map key is stored under in the XJSONMap: a string as it is, any
\* other key packed.
PackKey(key) == IF key.t = "string" THEN key ELSE PackXJSON(key).v

\* The Map case of PackXJSON, after the escape test: the StringMap when all
\* keys are strings, the XJSONMap otherwise.  Two keys that pack to the same
\* key share one entry, which keeps the value of the one Go visits last.
PackMapAlwaysStringMap(map_) ==
    StringMap([key \in {MapKeyToString(k) : k \in DOMAIN map_} |->
                PackXJSON(map_[CHOOSE k \in DOMAIN map_ : MapKeyToString(k) = key]).v])
PackMap(map_) ==
    IF \E key \in DOMAIN map_ : key.t # "string"
    THEN XJSONMap([key \in {PackKey(k) : k \in DOMAIN map_} |->
                    PackXJSON(map_[CHOOSE k \in DOMAIN map_ : PackKey(k) = key]).v])
    ELSE StringMap([key \in {k.s : k \in DOMAIN map_} |-> PackXJSON(map_[Str(key)]).v])

PackXJSON(value_) ==
    CASE value_.t \in SignedTypes -> [v |-> XJSONInteger(value_.n), converted |-> TRUE]
      [] value_.t \in UnsignedTypes -> [v |-> XJSONUInteger(value_.n), converted |-> TRUE]
      [] value_.t = "bytes" -> [v |-> XJSONBytes(value_.bytes), converted |-> TRUE]
      [] value_.t = "list" ->
            LET results == [i \in 1..Len(value_.list) |-> PackXJSON(value_.list[i])]
            IN IF \E i \in 1..Len(value_.list) : results[i].converted
               THEN [v |-> List([i \in 1..Len(value_.list) |-> results[i].v]),
                     converted |-> TRUE]
               ELSE [v |-> value_, converted |-> FALSE]
      [] value_.t = "smap" ->
            LET escaped == escapeXjsonStringMap(value_.smap)
                results == [key \in DOMAIN value_.smap |-> PackXJSON(value_.smap[key])]
            IN IF escaped.ok THEN [v |-> escaped.v, converted |-> TRUE]
               ELSE IF \E key \in DOMAIN value_.smap : results[key].converted
               THEN [v |-> StringMap([key \in DOMAIN value_.smap |-> results[key].v]),
                     converted |-> TRUE]
               ELSE [v |-> value_, converted |-> FALSE]
      [] value_.t = "map" ->
            LET escaped == escapeXjsonMap(value_.map)
            IN IF escaped.ok THEN [v |-> escaped.v, converted |-> TRUE]
               ELSE [v |-> PackMap(value_.map), converted |-> TRUE]
      [] OTHER -> [v |-> value_, converted |-> FALSE]

\* What json.Decoder reads back from the JSON text json.Marshal writes for a
\* packed tree: every object is a StringMap, every array a List, every
\* number a float64.  The wrapper types marshal themselves: an
\* XJSONInteger as {"$ard.integer": decimal string}, an XJSONMap as
\* {"$ard.map": [{"key": ..., "value": ...}, ...]} with one entry per key, in
\* map iteration order.
RECURSIVE MarshalJSON(_)
MarshalJSON(x) ==
    CASE x.t = "XJSONInteger" -> StringMap(Single(XJSONIntegerCode, Str(FormatInt(x.n))))
      [] x.t = "XJSONUInteger" -> StringMap(Single(XJSONUIntegerCode, Str(FormatUint(x.n))))
      [] x.t = "XJSONBytes" -> StringMap(Single(XJSONBytesCode, Str(ToBase64(x.bytes))))
      [] x.t = "XJSONMap" ->
            LET keys == SetToSeq(DOMAIN x.map)
            IN StringMap(Single(XJSONMapCode,
                    List([i \in 1..Len(keys) |->
                            StringMap([f \in {"key", "value"} |->
                                IF f = "key" THEN MarshalJSON(keys[i])
                                ELSE MarshalJSON(x.map[keys[i]])])])))
      [] x.t = "list" -> List([i \in 1..Len(x.list) |-> MarshalJSON(x.list[i])])
      [] x.t = "smap" -> StringMap([key \in DOMAIN x.smap |-> MarshalJSON(x.smap[key])])
      [] x.t \in SignedTypes \cup UnsignedTypes -> Float64(x.n)
      [] x.t = "bytes" -> Str(ToBase64(x.bytes))
      [] OTHER -> x

RECURSIVE UnpackXJSON(_, _)

UnpackXJSONInteger(code) ==
    IF /\ XJSONIntegerCode \in DOMAIN code
       /\ code[XJSONIntegerCode].t = "string"
       /\ ParseInt(code[XJSONIntegerCode].s).ok
    THEN [ok |-> TRUE, v |-> Int64(ParseInt(code[XJSONIntegerCode].s).v)]
    ELSE [ok |-> FALSE, v |-> Int64(0)]

UnpackXJSONUInteger(code) ==
    IF /\ XJSONUIntegerCode \in DOMAIN code
       /\ code[XJSONUIntegerCode].t = "string"
       /\ ParseUint(code[XJSONUIntegerCode].s).ok
    THEN [ok |-> TRUE, v |-> Uint64(ParseUint(code[XJSONUIntegerCode].s).v)]
    ELSE [ok |-> FALSE, v |-> Uint64(0)]

UnpackXJSONBytes(code) ==
    IF /\ XJSONBytesCode \in DOMAIN code
       /\ code[XJSONBytesCode].t = "string"
       /\ FromBase64(code[XJSONBytesCode].s).ok
    THEN [ok |-> TRUE, v |-> Bytes(FromBase64(code[XJSONBytesCode].s).v)]
    ELSE [ok |-> FALSE, v |-> Nil]

\* Key and Value are Panic when unpacking them panicked.
UnpackXJSONMapEntry(entry, useStringMaps_) ==
    IF entry.t = "smap" /\ "key" \in DOMAIN entry.smap /\ "value" \in DOMAIN entry.smap
    THEN [ok |-> TRUE,
          Key |-> UnpackXJSON(entry.smap["key"], useStringMaps_).v,
          Value |-> UnpackXJSON(entry.smap["value"], useStringMaps_).v]
    ELSE [ok |-> FALSE, Key |-> Nil, Value |-> Nil]

\* Go can hash every comparable key; storing under a key whose dynamic type
\* is a slice or a map is a run-time panic.
Hashable(key) == key.t \notin {"list", "map", "smap", "bytes"}

\* The loop of UnpackXJSONMap over the entries, map___ being the Map built
\* so far: v is Panic when an entry, or storing it, panicked.
RECURSIVE UnpackEntries(_, _, _)
UnpackEntries(entries, useStringMaps_, map___) ==
    IF entries = <<>> THEN [ok |-> TRUE, v |-> Map(map___)]
    ELSE LET entry_ == UnpackXJSONMapEntry(Head(entries), useStringMaps_)
         IN IF ~entry_.ok THEN [ok |-> FALSE, v |-> Nil]
            ELSE IF entry_.Key = Panic \/ entry_.Value = Panic \/ ~Hashable(entry_.Key)
            THEN [ok |-> TRUE, v |-> Panic]
            ELSE UnpackEntries(Tail(entries), useStringMaps_,
                               Put(map___, entry_.Key, entry_.Value))

UnpackXJSONMap(code, useStringMaps_) ==
    IF XJSONMapCode \in DOMAIN code /\ code[XJSONMapCode].t = "list"
    THEN UnpackEntries(code[XJSONMapCode].list, useStringMaps_, Empty)
    ELSE [ok |-> FALSE, v |-> Nil]

\* The map UnpackXJSON builds for an ordinary StringMap: a StringMap when
\* useStringMaps, a Map otherwise.
PlainMap(entries, useStringMaps_) ==
    IF useStringMaps_ THEN StringMap(entries)
    ELSE Map([key \in {Str(k) : k \in DOMAIN entries} |-> entries[key.s]])

\* The StringMap case of UnpackXJSON.
UnpackStringMap(map_, useStringMaps_) ==
    LET single == Cardinality(DOMAIN map_) = 1
        key == CHOOSE k \in DOMAIN map_ : TRUE
        integer == UnpackXJSONInteger(map_)
        uinteger == UnpackXJSONUInteger(map_)
        bytes == UnpackXJSONBytes(map_)
        xmap == UnpackXJSONMap(map_, useStringMaps_)
        results == [k \in DOMAIN map_ |-> UnpackXJSON(map_[k], useStringMaps_).v]
    IN IF single /\ integer.ok THEN integer.v
       ELSE IF single /\ uinteger.ok THEN uinteger.v
       ELSE IF single /\ bytes.ok THEN bytes.v
       ELSE IF single /\ xmap.ok THEN xmap.v
       ELSE IF \E k \in DOMAIN map_ : results[k] = Panic THEN Panic
       \* Handle escape code: $$ -> $
       ELSE IF single /\ HasPrefix(key, "$$")
       THEN Map(Single(Str(SubSeq(key, 2, Len(key))), results[key]))
       ELSE PlainMap(results, useStringMaps_)

UnpackXJSON(value_, useStringMaps_) ==
    CASE value_.t = "list" ->
            LET results == [i \in 1..Len(value_.list) |->
                                UnpackXJSON(value_.list[i], useStringMaps_)]
            IN IF \E i \in 1..Len(value_.list) : results[i].v = Panic
               THEN [v |-> Panic, converted |-> FALSE]
               ELSE IF \E i \in 1..Len(value_.list) : results[i].converted
               THEN [v |-> List([i \in 1..Len(value_.list) |-> results[i].v]),
                     converted |-> TRUE]
               ELSE [v |-> value_, converted |-> FALSE]
      [] value_.t = "map" ->
            LET map_ == [key \in {MapKeyToString(k) : k \in DOMAIN value_.map} |->
                            value_.map[CHOOSE k \in DOMAIN value_.map :
                                            MapKeyToString(k) = key]]
            IN [v |-> UnpackStringMap(map_, useStringMaps_), converted |-> TRUE]
      [] value_.t = "smap" ->
            [v |-> UnpackStringMap(value_.smap, useStringMaps_), converted |-> TRUE]
      [] OTHER -> [v |-> value_, converted |-> FALSE]

(***************************************************************************)
(* Containers in memory (Copy: src/copy.go, Merge: src/merge.go)           *)
(*                                                                         *)
(* Go maps and slices are references.  The heap is the sequence of the     *)
(* objects allocated so far, an object's address being its index: a map    *)
(* object [entries |-> function from keys to values] or a backing array    *)
(* [cells |-> sequence of values], as long as the array's capacity.  A     *)
(* value in memory is a scalar, as above, or a reference: MapAt and        *)
(* StringMapAt hold the address of a map object, ListAt is a slice header, *)
(* the address of a backing array and a length (every slice here starts at *)
(* the first cell of its array).                                           *)
(***************************************************************************)
MapAt(addr) == [t |-> "map", at |-> addr]
StringMapAt(addr) == [t |-> "smap", at |-> addr]
ListAt(addr, length) == [t |-> "list", at |-> addr, len |-> length]

\* make(...): a new object, at the next address.
make(h, object) == [h |-> Append(h, object), at |-> Len(h) + 1]
\* n cells holding the zero value of Value, nil.
RECURSIVE Zeroes(_)
Zeroes(n) == IF n <= 0 THEN <<>> ELSE Append(Zeroes(n - 1), Nil)
\* The entries of the map a reference points at, and the elements of a slice.
EntriesAt(h, ref) == h[ref.at].entries
Cells(h, ref) == SubSeq(h[ref.at].cells, 1, ref.len)
\* cap(slice)
Cap(h, ref) == Len(h[ref.at].cells)

\* The tree a value in memory denotes.
RECURSIVE Deref(_, _)
Deref(h, x) ==
    CASE x.t = "list" -> List([i \in 1..x.len |-> Deref(h, h[x.at].cells[i])])
      [] x.t = "map" -> Map([k \in DOMAIN EntriesAt(h, x) |-> Deref(h, EntriesAt(h, x)[k])])
      [] x.t = "smap" -> StringMap([k \in DOMAIN EntriesAt(h, x) |-> Deref(h, EntriesAt(h, x)[k])])
      [] OTHER -> x

\* The references to containers found in a value in memory, itself included.
RECURSIVE Refs(_, _)
Refs(h, x) ==
    CASE x.t = "list" -> {x} \cup UNION {Refs(h, h[x.at].cells[i]) : i \in 1..x.len}
      [] x.t \in {"map", "smap"} ->
            {x} \cup UNION {Refs(h, EntriesAt(h, x)[k]) : k \in DOMAIN EntriesAt(h, x)}
      [] OTHER -> {}
\* The addresses of the containers reachable from a value in memory.
Reach(h, x) == {ref.at : ref \in Refs(h, x)}

\* A tree built in memory by a decoder or by literals, every container a new
\* object, every list with spare cells of capacity beyond its length.
RECURSIVE Alloc(_, _, _)
RECURSIVE AllocAll(_, _, _)
AllocAll(h, trees, spare) ==
    IF trees = <<>> THEN [h |-> h, vs |-> <<>>]
    ELSE LET first == Alloc(h, Head(trees), spare)
             rest == AllocAll(first.h, Tail(trees), spare)
         IN [h |-> rest.h, vs |-> <<first.v>> \o rest.vs]
Alloc(h, tree, spare) ==
    CASE tree.t = "list" ->
            LET elements == AllocAll(h, tree.list, spare)
                new == make(elements.h, [cells |-> elements.vs \o Zeroes(spare)])
            IN [h |-> new.h, v |-> ListAt(new.at, Len(tree.list))]
      [] tree.t \in {"map", "smap"} ->
            LET keys == SetToSeq(Keys(tree))
                elements == AllocAll(h, [i \in 1..Len(keys) |-> Entries(tree)[keys[i]]], spare)
                new == make(elements.h,
                            [entries |-> [k \in Keys(tree) |->
                                elements.vs[CHOOSE i \in 1..Len(keys) : keys[i] = k]]])
            IN [h |-> new.h, v |-> [t |-> tree.t, at |-> new.at]]
      [] OTHER -> [h |-> h, v |-> tree]

(***************************************************************************)
(* Copy (src/copy.go)                                                      *)
(*                                                                         *)
(* copy_ with a nil reflector.  The operators take the heap and return the *)
(* heap after the call with the value returned, [h, v].  The order of a    *)
(* range over a map is not specified; each iteration writes the entry of   *)
(* its own key, so that the order only permutes the addresses of the       *)
(* objects allocated, and the loops follow SetToSeq.                       *)
(***************************************************************************)
noConversion == "noConversion"
convertStringMapsToMaps == "convertStringMapsToMaps"
convertMapsToStringMaps == "convertMapsToStringMaps"

RECURSIVE copy_(_, _, _)

\* The key a copied map stores an entry under, and the variant of the copy.
CopiedKey(value_, key, mode) ==
    IF value_.t = "map" /\ mode = convertMapsToStringMaps THEN MapKeyToString(key)
    ELSE IF value_.t = "smap" /\ mode = convertStringMapsToMaps THEN Str(key)
    ELSE key
CopiedVariant(value_, mode) ==
    IF value_.t = "map" /\ mode = convertMapsToStringMaps THEN "smap"
    ELSE IF value_.t = "smap" /\ mode = convertStringMapsToMaps THEN "map"
    ELSE value_.t

\* for key, value__ := range value_ { copiedMap[key], err = copy_(value__, ...) }
RECURSIVE CopyEntries(_, _, _, _, _)
CopyEntries(h, copiedMap, value_, keys, mode) ==
    IF keys = <<>> THEN h
    ELSE LET key == Head(keys)
             copied == copy_(h, EntriesAt(h, value_)[key], mode)
         IN CopyEntries([copied.h EXCEPT ![copiedMap].entries =
                                Put(@, CopiedKey(value_, key, mode), copied.v)],
                        copiedMap, value_, Tail(keys), mode)

\* for index, entry := range value_ { copiedList[index], err = copy_(entry, ...) }
RECURSIVE CopyCells(_, _, _, _, _)
CopyCells(h, copiedList, value_, index, mode) ==
    IF index > value_.len THEN h
    ELSE LET copied == copy_(h, h[value_.at].cells[index], mode)
         IN CopyCells([copied.h EXCEPT ![copiedList].cells[index] = copied.v],
                      copiedList, value_, index + 1, mode)

copy_(h, value_, mode) ==
    CASE value_.t \in {"map", "smap"} ->
            LET copiedMap == make(h, [entries |-> Empty])
            IN [h |-> CopyEntries(copiedMap.h, copiedMap.at, value_,
                                  SetToSeq(DOMAIN EntriesAt(h, value_)), mode),
                v |-> [t |-> CopiedVariant(value_, mode), at |-> copiedMap.at]]
      [] value_.t = "list" ->
            LET copiedList == make(h, [cells |-> Zeroes(value_.len)])
            IN [h |-> CopyCells(copiedList.h, copiedList.at, value_, 1, mode),
                v |-> ListAt(copiedList.at, value_.len)]
      [] OTHER -> [h |-> h, v |-> value_]

\* No copy at all: the value itself is handed back.
CopyShared(h, value_) == [h |-> h, v |-> value_]
Copy(h, value_) == copy_(h, value_, noConversion)

(***************************************************************************)
(* Conversion of the map variants (src/conversion.go)                      *)
(*                                                                         *)
(* convert returns the value and whether anything was converted: [h, v,    *)
(* changed].  The map or list it fills is allocated before it is known     *)
(* whether it will be returned.  The keys of a Map are hashable values,    *)
(* which convert returns as they are.                                      *)
(***************************************************************************)
RECURSIVE convert(_, _, _)

\* for key, element := range value_ { changedMap[key] = convert(element, mode) }
RECURSIVE ConvertEntries(_, _, _, _, _)
ConvertEntries(h, changedMap, value_, keys, mode) ==
    IF keys = <<>> THEN [h |-> h, changed |-> FALSE]
    ELSE LET key == Head(keys)
             element == convert(h, EntriesAt(h, value_)[key], mode)
             rest == ConvertEntries([element.h EXCEPT ![changedMap].entries =
                                        Put(@, CopiedKey(value_, key, mode), element.v)],
                                    changedMap, value_, Tail(keys), mode)
         IN [h |-> rest.h, changed |-> element.changed \/ rest.changed]

\* for index, element := range value_ { changedList[index] = convert(element, mode) }
RECURSIVE ConvertCells(_, _, _, _, _)
ConvertCells(h, changedList, value_, index, mode) ==
    IF index > value_.len THEN [h |-> h, changed |-> FALSE]
    ELSE LET element == convert(h, h[value_.at].cells[index], mode)
             rest == ConvertCells([element.h EXCEPT ![changedList].cells[index] = element.v],
                                  changedList, value_, index + 1, mode)
         IN [h |-> rest.h, changed |-> element.changed \/ rest.changed]

convert(h, value_, mode) ==
    CASE value_.t \in {"map", "smap"} ->
            LET changedMap == make(h, [entries |-> Empty])
                done == ConvertEntries(changedMap.h, changedMap.at, value_,
                                       SetToSeq(DOMAIN EntriesAt(h, value_)), mode)
            IN IF CopiedVariant(value_, mode) # value_.t \/ done.changed
               THEN [h |-> done.h,
                     v |-> [t |-> CopiedVariant(value_, mode), at |-> changedMap.at],
                     changed |-> TRUE]
               ELSE [h |-> done.h, v |-> value_, changed |-> FALSE]
      [] value_.t = "list" ->
            LET changedList == make(h, [cells |-> Zeroes(value_.len)])
                done == ConvertCells(changedList.h, changedList.at, value_, 1, mode)
            IN IF done.changed
               THEN [h |-> done.h, v |-> ListAt(changedList.at, value_.len),
                     changed |-> TRUE]
               ELSE [h |-> done.h, v |-> value_, changed |-> FALSE]
      [] OTHER -> [h |-> h, v |-> value_, changed |-> FALSE]

\* Nothing is converted.
ConvertNothing(h, value_) == [h |-> h, v |-> value_, changed |-> FALSE]
\* ConvertStringMapsToMaps(value)
ConvertStringMapsToMaps(h, value_) == convert(h, value_, convertStringMapsToMaps)
\* ConvertMapsToStringMaps(value)
ConvertMapsToStringMaps(h, value_) == convert(h, value_, convertMapsToStringMaps)

(***************************************************************************)
(* Reading (src/read.go, src/roundtrip.go, src/validate.go, Decode:        *)
(* src/unnamed/part_008)                                                   *)
(*                                                                         *)
(* The parsers of the formats are libraries.  What is read is given by the *)
(* tree the decoder of the format yields for it, or DecodeError when the   *)
(* decoder fails; the operators are what the package does around the       *)
(* decoder.  A result is the value, the locator and the error returned,    *)
(* and the codec that was run.                                             *)
(***************************************************************************)
DecodeError == [t |-> "error"]
Outcome(value_, locator_, err_, codec_) ==
    [value |-> value_, locator |-> locator_, err |-> err_, codec |-> codec_]
\* fmt.Errorf("unsupported format: %q", format)
Unsupported == Outcome(Nil, "nil", "unsupported format", "none")
\* The decoder has failed.
Failed(codec_) == Outcome(Nil, "nil", "decode error", codec_)

\* ReadYAML(reader, locate)
ReadYAML(tree, locate_) ==
    IF tree = DecodeError THEN Failed("yaml")
    ELSE Outcome(tree, IF locate_ THEN "YAMLLocator" ELSE "nil", "nil", "yaml")

\* ReadJSON(reader, useStringMaps)
ReadJSON(tree, useStringMaps_) ==
    IF tree = DecodeError THEN Failed("json")
    ELSE IF useStringMaps_ THEN Outcome(tree, "nil", "nil", "json")
    ELSE LET built == Alloc(<<>>, tree, 0)
             converted == ConvertStringMapsToMaps(built.h, built.v)
         IN Outcome(Deref(converted.h, converted.v), "nil", "nil", "json")

\* ReadXJSON(reader, useStringMaps)
ReadXJSON(tree, useStringMaps_) ==
    IF tree = DecodeError THEN Failed("xjson")
    ELSE LET value_ == UnpackXJSON(tree, useStringMaps_).v
         IN Outcome(value_, "nil", IF value_ = Panic THEN "panic" ELSE "nil", "xjson")

\* ReadXML(reader)
ReadXML(tree) ==
    IF tree = DecodeError THEN Failed("xml") ELSE Outcome(tree, "nil", "nil", "xml")

\* ReadCBOR(reader, false)
ReadCBOR(tree) ==
    IF tree = DecodeError THEN Failed("cbor") ELSE Outcome(tree, "nil", "nil", "cbor")

\* ReadMessagePack(reader, false, useStringMaps)
ReadMessagePack(tree, useStringMaps_) ==
    IF tree = DecodeError THEN Failed("messagepack")
    ELSE IF useStringMaps_ THEN Outcome(tree, "nil", "nil", "messagepack")
    ELSE LET built == Alloc(<<>>, tree, 0)
             converted == ConvertStringMapsToMaps(built.h, built.v)
         IN Outcome(Deref(converted.h, converted.v), "nil", "nil", "messagepack")

\* The empty format is read as YAML.
ReadLenient(tree, format_, locate_) ==
    IF format_ \in {"yaml", ""} THEN ReadYAML(tree, locate_) ELSE Unsupported
\* Read(reader, format, locate)
Read(tree, format_, locate_) ==
    CASE format_ = "yaml" -> ReadYAML(tree, locate_)
      [] format_ = "json" -> ReadJSON(tree, FALSE)
      [] format_ = "xjson" -> ReadXJSON(tree, FALSE)
      [] format_ = "xml" -> ReadXML(tree)
      [] format_ = "cbor" -> ReadCBOR(tree)
      [] format_ = "messagepack" -> ReadMessagePack(tree, FALSE)
      [] OTHER -> Unsupported

\* Decode(code, format, locate): DecodeYAML, DecodeJSON, ... hand a reader of
\* the code to ReadYAML, ReadJSON, ...
Decode(tree, format_, locate_) ==
    CASE format_ = "yaml" -> ReadYAML(tree, locate_)
      [] format_ = "json" -> ReadJSON(tree, FALSE)
      [] format_ = "xjson" -> ReadXJSON(tree, FALSE)
      [] format_ = "xml" -> ReadXML(tree)
      [] format_ = "cbor" -> ReadCBOR(tree)
      [] format_ = "messagepack" -> ReadMessagePack(tree, FALSE)
      [] OTHER -> Unsupported

\* Roundtrip(value, format, reflector): tree is what the decoder yields for
\* the encoding of value, DecodeError when the encoding or the decoding
\* fails.
Roundtrip(tree, format_) ==
    CASE format_ = "yaml" -> [ReadYAML(tree, FALSE) EXCEPT !.locator = "nil"]
      [] format_ = "json" -> ReadJSON(tree, TRUE)
      [] format_ = "xjson" -> ReadXJSON(tree, TRUE)
      [] format_ = "xml" -> ReadXML(tree)
      [] format_ = "cbor" -> ReadCBOR(tree)
      [] format_ = "messagepack" -> ReadMessagePack(tree, TRUE)
      [] OTHER -> Unsupported

\* Validate(code, format): the error alone; "json" and "xjson" are both
\* checked by ValidateJSON.
Validate(tree, format_) ==
    CASE format_ \in {"yaml", "xml", "cbor", "messagepack"} ->
            IF tree = DecodeError THEN Failed(format_)
            ELSE Outcome(Nil, "nil", "nil", format_)
      [] format_ \in {"json", "xjson"} ->
            IF tree = DecodeError THEN Failed("json") ELSE Outcome(Nil, "nil", "nil", "json")
      [] OTHER -> Unsupported

(***************************************************************************)
(* Merge (src/merge.go)                                                    *)
(***************************************************************************)
\* The capacity append gives the new backing array of a full slice of
\* capacity cap_ that grows by one element.
GrowCap(cap_) == IF cap_ = 0 THEN 1 ELSE 2 * cap_

\* append(slice, x): in place while the backing array has a spare cell, in a
\* new backing array otherwise.
append(h, slice, x) ==
    IF slice.len < Cap(h, slice)
    THEN [h |-> [h EXCEPT ![slice.at].cells[slice.len + 1] = x],
          v |-> ListAt(slice.at, slice.len + 1)]
    ELSE LET new == make(h, [cells |-> Cells(h, slice) \o <<x>>
                                \o Zeroes(GrowCap(Cap(h, slice)) - slice.len - 1)])
         IN [h |-> new.h, v |-> ListAt(new.at, slice.len + 1)]

RECURSIVE Merge(_, _, _, _)

\* for _, sourceValue := range sourceList {
\*     targetList = append(targetList, Copy(sourceValue)) }
RECURSIVE AppendCopies(_, _, _, _)
AppendCopies(h, targetList, sourceList, index) ==
    IF index > sourceList.len THEN [h |-> h, v |-> targetList]
    ELSE LET copied == Copy(h, h[sourceList.at].cells[index])
             appended == append(copied.h, targetList, copied.v)
         IN AppendCopies(appended.h, appended.v, sourceList, index + 1)

\* The two lists are not merged: the result is a copy of the source list.
MergeListsOverwrite(h, targetList, sourceList) == Copy(h, sourceList)
MergeLists(h, targetList, sourceList) == AppendCopies(h, targetList, sourceList, 1)

\* for key, sourceValue := range sourceMap { ... }
RECURSIVE MergeEntries(_, _, _, _, _)
MergeEntries(h, targetMap, sourceMap, keys, appendLists_) ==
    IF keys = <<>> THEN h
    ELSE LET key == Head(keys)
             sourceValue == EntriesAt(h, sourceMap)[key]
             stored == IF key \in DOMAIN EntriesAt(h, targetMap)
                       THEN Merge(h, EntriesAt(h, targetMap)[key], sourceValue, appendLists_)
                       ELSE Copy(h, sourceValue)
         IN MergeEntries([stored.h EXCEPT ![targetMap.at].entries = Put(@, key, stored.v)],
                         targetMap, sourceMap, Tail(keys), appendLists_)

\* The two maps are not merged: the result is a copy of the source map.
MergeMapsOverwrite(h, targetMap, sourceMap, appendLists_) == Copy(h, sourceMap)
MergeMaps(h, targetMap, sourceMap, appendLists_) ==
    [h |-> MergeEntries(h, targetMap, sourceMap,
                        SetToSeq(DOMAIN EntriesAt(h, sourceMap)), appendLists_),
     v |-> targetMap]

Merge(h, target_, source_, appendLists_) ==
    IF IsMap(target_) /\ IsMap(source_)
    THEN MergeMaps(h, target_, source_, appendLists_)
    ELSE IF IsStringMap(target_) /\ IsStringMap(source_)
    THEN MergeMaps(h, target_, source_, appendLists_)
    ELSE IF appendLists_ /\ IsList(target_) /\ IsList(source_)
    THEN MergeLists(h, target_, source_)
    ELSE Copy(h, source_)

(***************************************************************************)
(* Node (src/node.go, lines 1-686)                                         *)
(*                                                                         *)
(* A *Node is the address of a node object in the sequence of the nodes    *)
(* allocated so far; a node object has the fields of the Go struct, the    *)
(* container being the address of another node, or NilPointer.  NoNode is  *)
(* the first node allocated.  The operators take the heap and the nodes    *)
(* and return both with what the method returns.                           *)
(***************************************************************************)
NilPointer == 0
NoNode == 1

\* &Node{value, container, key, nilMeansZero, convertSimilar}
NewNode(ns, value_, container_, key_, nilMeansZero_, convertSimilar_) ==
    [nodes |-> Append(ns, [Value |-> value_, container |-> container_, key |-> key_,
                           nilMeansZero |-> nilMeansZero_,
                           convertSimilar |-> convertSimilar_]),
     at |-> Len(ns) + 1]

\* var NoNode = &Node{nil, nil, "", false, false}
NoNodeOnly == NewNode(<<>>, Nil, NilPointer, Str(""), FALSE, FALSE).nodes

\* With(data)
With(ns, data) == NewNode(ns, data, NilPointer, Str(""), FALSE, FALSE)

\* The copy keeps the flag of the node.
NilMeansZeroUnset(ns, self) ==
    IF self = NoNode THEN [nodes |-> ns, at |-> NoNode]
    ELSE NewNode(ns, ns[self].Value, ns[self].container, ns[self].key,
                 ns[self].nilMeansZero, ns[self].convertSimilar)
\* The copy is made of NoNode too.
NilMeansZeroOfAny(ns, self) ==
    NewNode(ns, ns[self].Value, ns[self].container, ns[self].key, TRUE,
            ns[self].convertSimilar)
\* self.NilMeansZero()
NilMeansZero(ns, self) ==
    IF self = NoNode THEN [nodes |-> ns, at |-> NoNode]
    ELSE NewNode(ns, ns[self].Value, ns[self].container, ns[self].key,
                 TRUE, ns[self].convertSimilar)

\* self.ConvertSimilar()
ConvertSimilar(ns, self) ==
    IF self = NoNode THEN [nodes |-> ns, at |-> NoNode]
    ELSE NewNode(ns, ns[self].Value, ns[self].container, ns[self].key,
                 ns[self].nilMeansZero, TRUE)

IsAnyMap(x) == x.t \in {"map", "smap"}

\* The key a map of the variant of map_ keeps an entry of key under.
KeyIn(map_, key) == IF map_.t = "smap" THEN MapKeyToString(key) ELSE key

\* getFromMap(value, key): value, exists, isMap
getFromMap(h, value_, key) ==
    IF IsAnyMap(value_) /\ KeyIn(value_, key) \in DOMAIN EntriesAt(h, value_)
    THEN LET value__ == EntriesAt(h, value_)[KeyIn(value_, key)]
         IN [value |-> value__, ok |-> TRUE, isMap |-> IsAnyMap(value__)]
    ELSE [value |-> Nil, ok |-> FALSE, isMap |-> FALSE]

\* putInMap(map_, key, value): the heap afterwards
putInMap(h, map_, key, value_) ==
    [h EXCEPT ![map_.at].entries = Put(@, KeyIn(map_, key), value_)]

\* deleteFromMap(map_, key): the heap afterwards
deleteFromMap(h, map_, key) ==
    [h EXCEPT ![map_.at].entries = [k \in (DOMAIN @) \ {KeyIn(map_, key)} |-> @[k]]]

\* The loop of get over keys[:last], from the node current: ok is false when
\* the loop returned NoNode.
RECURSIVE Descend(_, _, _, _, _)
Descend(h, ns, current, keys, force) ==
    IF keys = <<>> THEN [h |-> h, nodes |-> ns, current |-> current, ok |-> TRUE]
    ELSE LET key == Head(keys)
             found == getFromMap(h, ns[current].Value, key)
         IN IF found.ok
            THEN IF found.isMap
                 THEN LET child == NewNode(ns, found.value, current, key,
                                           ns[current].nilMeansZero,
                                           ns[current].convertSimilar)
                      IN Descend(h, child.nodes, child.at, Tail(keys), force)
                 ELSE [h |-> h, nodes |-> ns, current |-> NoNode, ok |-> FALSE]
            ELSE IF force
            THEN LET childMap == make(h, [entries |-> Empty])
                     ref == [t |-> ns[current].Value.t, at |-> childMap.at]
                     child == NewNode(ns, ref, current, key, ns[current].nilMeansZero,
                                      ns[current].convertSimilar)
                 IN Descend(putInMap(childMap.h, ns[current].Value, key, ref),
                            child.nodes, child.at, Tail(keys), force)
            ELSE [h |-> h, nodes |-> ns, current |-> NoNode, ok |-> FALSE]

\* self.get(keys, force)
get(h, ns, self, keys, force) ==
    IF self = NoNode \/ Len(keys) = 0 \/ ~IsAnyMap(ns[self].Value)
    THEN [h |-> h, nodes |-> ns, at |-> NoNode]
    ELSE LET walked == Descend(h, ns, self, SubSeq(keys, 1, Len(keys) - 1), force)
             lastKey == keys[Len(keys)]
         IN IF ~walked.ok THEN [h |-> walked.h, nodes |-> walked.nodes, at |-> NoNode]
            ELSE LET current == walked.nodes[walked.current]
                     found == getFromMap(walked.h, current.Value, lastKey)
                     node == NewNode(walked.nodes, found.value, walked.current, lastKey,
                                     current.nilMeansZero, current.convertSimilar)
                 IN IF found.ok \/ force
                    THEN [h |-> walked.h, nodes |-> node.nodes, at |-> node.at]
                    ELSE [h |-> walked.h, nodes |-> walked.nodes, at |-> NoNode]

\* Get creates what is missing.
GetForcing(h, ns, self, keys) == get(h, ns, self, keys, TRUE)
\* self.Get(keys...)
Get(h, ns, self, keys) == get(h, ns, self, keys, FALSE)
\* The forced descent does not create anything.
ForceGetWithoutForce(h, ns, self, keys) == get(h, ns, self, keys, FALSE)
\* self.ForceGet(keys...)
ForceGet(h, ns, self, keys) == get(h, ns, self, keys, TRUE)

\* self has a container that holds a map.
InMap(ns, self) ==
    /\ ns[self].container # NilPointer
    /\ IsAnyMap(ns[ns[self].container].Value)

\* Set always succeeds and only changes the node.
SetNodeOnly(h, ns, self, value_) ==
    [h |-> h, nodes |-> [ns EXCEPT ![self].Value = value_], ok |-> TRUE]
\* self.Set(value)
Set(h, ns, self, value_) ==
    IF self # NoNode /\ InMap(ns, self)
    THEN [h |-> putInMap(h, ns[ns[self].container].Value, ns[self].key, value_),
          nodes |-> [ns EXCEPT ![self].Value = value_],
          ok |-> TRUE]
    ELSE [h |-> h, nodes |-> ns, ok |-> FALSE]

\* self.Append(value)
NodeAppend(h, ns, self, value_) ==
    IF self # NoNode /\ ns[self].Value.t = "list"
    THEN LET appended == append(h, ns[self].Value, value_)
         IN Set(appended.h, ns, self, appended.v)
    ELSE [h |-> h, nodes |-> ns, ok |-> FALSE]

\* Delete removes the key and leaves the node as it is.
DeleteKeepsNode(h, ns, self) ==
    IF self # NoNode /\ InMap(ns, self)
    THEN [h |-> deleteFromMap(h, ns[ns[self].container].Value, ns[self].key),
          nodes |-> ns, ok |-> TRUE]
    ELSE [h |-> h, nodes |-> ns, ok |-> FALSE]
\* self.Delete()
Delete(h, ns, self) ==
    IF self # NoNode /\ InMap(ns, self)
    THEN [h |-> deleteFromMap(h, ns[ns[self].container].Value, ns[self].key),
          nodes |-> [ns EXCEPT ![self] = [@ EXCEPT !.container = NilPointer,
                                                   !.key = Nil, !.Value = Nil]],
          ok |-> TRUE]
    ELSE [h |-> h, nodes |-> ns, ok |-> FALSE]

\* What an extractor returns: a value and the found flag.
Found(value_) == [v |-> value_, ok |-> TRUE]
NotFound(zero) == [v |-> zero, ok |-> FALSE]

\* []string
Strings(x) == [t |-> "strings", strings |-> x]

\* The conversions of kutil (util.ToString, util.ToInt64, util.ToUInt64,
\* util.ToFloat64) on the values of the model.  util.ToString prints what
\* ValueToString does not know with fmt: the model keeps the type printed.
UtilToString(value_) == "%v(" \o value_.t \o ")"
UtilToInt64(value_) ==
    IF value_.t \in SignedTypes \cup {"float64"} THEN Found(Int64(value_.n))
    ELSE IF value_.t \in UnsignedTypes
    THEN Found(Int64(IF value_.n > MaxInt64 THEN value_.n - (MaxUint64 + 1) ELSE value_.n))
    ELSE NotFound(Int64(0))
UtilToUInt64(value_) ==
    IF value_.t \in UnsignedTypes THEN Found(Uint64(value_.n))
    ELSE IF value_.t \in SignedTypes \cup {"float64"}
    THEN Found(Uint64(value_.n % (MaxUint64 + 1)))
    ELSE NotFound(Uint64(0))
UtilToFloat64(value_) ==
    IF value_.t \in SignedTypes \cup UnsignedTypes \cup {"float64"}
    THEN Found(Float64(value_.n))
    ELSE NotFound(Float64(0))

\* ValueToString(value)
ValueToString(value_) ==
    CASE value_.t = "bool" -> IF value_.b THEN "true" ELSE "false"
      [] value_.t \in SignedTypes -> FormatInt(value_.n)
      [] value_.t \in UnsignedTypes -> FormatUint(value_.n)
      [] value_.t = "float64" -> FormatInt(value_.n)
      [] value_.t = "string" -> value_.s
      [] OTHER -> UtilToString(value_)

\* strconv.ParseBool
ParseBool(s) ==
    IF s \in {"1", "t", "T", "TRUE", "true", "True"} THEN [ok |-> TRUE, v |-> TRUE]
    ELSE IF s \in {"0", "f", "F", "FALSE", "false", "False"} THEN [ok |-> TRUE, v |-> FALSE]
    ELSE [ok |-> FALSE, v |-> FALSE]

\* The switch of every extractor: the value when its type is the one asked
\* for, the zero value when it is nil and nil means zero, the conversion of
\* a similar value when asked for, and not found otherwise; not found on
\* NoNode.
Extractor(ns, self, matches, matched, zero, similar, failed) ==
    IF self = NoNode THEN NotFound(failed)
    ELSE IF matches THEN Found(matched)
    ELSE IF ns[self].Value.t = "nil"
    THEN IF ns[self].nilMeansZero THEN Found(zero) ELSE NotFound(failed)
    ELSE IF ns[self].convertSimilar /\ similar.ok THEN Found(similar.v)
    ELSE NotFound(failed)

\* self.String()
NodeString(ns, self) ==
    LET value_ == ns[self].Value
    IN Extractor(ns, self, value_.t = "string", value_, Str(""),
                 Found(Str(ValueToString(value_))), Str(""))

\* self.Bytes()
NodeBytes(ns, self) ==
    LET value_ == ns[self].Value
        decoded == IF value_.t = "string" THEN FromBase64(value_.s)
                   ELSE [ok |-> FALSE, v |-> <<>>]
    IN Extractor(ns, self, value_.t = "bytes", value_, Bytes(<<>>),
                 [ok |-> decoded.ok, v |-> Bytes(decoded.v)], Nil)

\* self.Integer()
NodeInteger(ns, self) ==
    LET value_ == ns[self].Value
    IN Extractor(ns, self, value_.t \in SignedTypes, Int64(value_.n), Int64(0),
                 UtilToInt64(value_), Int64(0))

\* self.UnsignedInteger()
NodeUnsignedInteger(ns, self) ==
    LET value_ == ns[self].Value
    IN Extractor(ns, self, value_.t \in UnsignedTypes, Uint64(value_.n), Uint64(0),
                 UtilToUInt64(value_), Uint64(0))

\* self.Float()
NodeFloat(ns, self) ==
    LET value_ == ns[self].Value
    IN Extractor(ns, self, value_.t = "float64", value_, Float64(0),
                 UtilToFloat64(value_), Float64(0))

\* self.Boolean()
NodeBoolean(ns, self) ==
    LET value_ == ns[self].Value
        string_ == NodeString(ns, self)
        parsed == IF string_.ok THEN ParseBool(string_.v.s) ELSE [ok |-> FALSE, v |-> FALSE]
    IN Extractor(ns, self, value_.t = "bool", value_, Bool(FALSE),
                 [ok |-> parsed.ok, v |-> Bool(parsed.v)], Bool(FALSE))

\* self.Map(): a new Map with the entries of a StringMap when similar.
NodeMap(h, ns, self) ==
    LET value_ == ns[self].Value
        map_ == IF value_.t = "smap"
                THEN [key \in {Str(k) : k \in DOMAIN EntriesAt(h, value_)} |->
                        EntriesAt(h, value_)[key.s]]
                ELSE Empty
    IN Extractor(ns, self, value_.t = "map", value_, Map(Empty),
                 [ok |-> value_.t = "smap", v |-> Map(map_)], Nil)

\* self.StringMap(): a new StringMap with the entries of a Map when similar
\* (of two keys with one string, one entry is kept).
NodeStringMap(h, ns, self) ==
    LET value_ == ns[self].Value
        stringMap == IF value_.t = "map"
                     THEN [key \in {MapKeyToString(k) : k \in DOMAIN EntriesAt(h, value_)} |->
                            EntriesAt(h, value_)[CHOOSE k \in DOMAIN EntriesAt(h, value_) :
                                                    MapKeyToString(k) = key]]
                     ELSE Empty
    IN Extractor(ns, self, value_.t = "smap", value_, StringMap(Empty),
                 [ok |-> value_.t = "map", v |-> StringMap(stringMap)], Nil)

\* self.List(): a new List of the bytes of a []byte when similar.
NodeList(ns, self) ==
    LET value_ == ns[self].Value
        list == IF value_.t = "bytes"
                THEN [i \in 1..Len(value_.bytes) |-> Uint8(value_.bytes[i])]
                ELSE <<>>
    IN Extractor(ns, self, value_.t = "list", value_, List(<<>>),
                 [ok |-> value_.t = "bytes", v |-> List(list)], Nil)

\* self.StringList(): the strings of a List, its other elements converted
\* when similar.
NodeStringList(h, ns, self) ==
    LET value_ == ns[self].Value
        elements == IF value_.t = "list" THEN Cells(h, value_) ELSE <<>>
        allStrings == \A i \in 1..Len(elements) : elements[i].t = "string"
        list == [i \in 1..Len(elements) |-> ValueToString(elements[i])]
        bytes == IF value_.t = "bytes"
                 THEN [i \in 1..Len(value_.bytes) |-> FormatUint(value_.bytes[i])]
                 ELSE <<>>
    IN IF self # NoNode /\ value_.t = "list"
       THEN IF allStrings \/ ns[self].convertSimilar THEN Found(Strings(list))
            ELSE NotFound(Nil)
       ELSE Extractor(ns, self, FALSE, Nil, Strings(<<>>),
                      [ok |-> value_.t = "bytes", v |-> Strings(bytes)], Nil)

\* Every typed extractor, called on one node.
Extractors == {"String", "Bytes", "Integer", "UnsignedInteger", "Float", "Boolean",
               "Map", "StringMap", "List", "StringList"}
Extract(h, ns, self) ==
    [extractor \in Extractors |->
        CASE extractor = "String" -> NodeString(ns, self)
          [] extractor = "Bytes" -> NodeBytes(ns, self)
          [] extractor = "Integer" -> NodeInteger(ns, self)
          [] extractor = "UnsignedInteger" -> NodeUnsignedInteger(ns, self)
          [] extractor = "Float" -> NodeFloat(ns, self)
          [] extractor = "Boolean" -> NodeBoolean(ns, self)
          [] extractor = "Map" -> NodeMap(h, ns, self)
          [] extractor = "StringMap" -> NodeStringMap(h, ns, self)
          [] extractor = "List" -> NodeList(ns, self)
          [] extractor = "StringList" -> NodeStringList(h, ns, self)]

\* The zero value of the type of an extractor.
Zero(extractor) ==
    CASE extractor = "String" -> Str("")
      [] extractor = "Bytes" -> Bytes(<<>>)
      [] extractor = "Integer" -> Int64(0)
      [] extractor = "UnsignedInteger" -> Uint64(0)
      [] extractor = "Float" -> Float64(0)
      [] extractor = "Boolean" -> Bool(FALSE)
      [] extractor = "Map" -> Map(Empty)
      [] extractor = "StringMap" -> StringMap(Empty)
      [] extractor = "List" -> List(<<>>)
      [] extractor = "StringList" -> Strings(<<>>)

(***************************************************************************)
(* The Equals scenario: two values of the value model, then one call.      *)
(***************************************************************************)
EqScalars ==
    {Nil, Bool(TRUE), Int64(3), GoInt(3), Uint64(3), Float64(3), Int64(4),
     Str("a"), Str("3"), Bytes(<<1>>), Bytes(<<>>)}
\* The scalars found inside the generated containers.
EqInner == {Nil, Int64(3), Float64(3), Str("a"), Bytes(<<1>>)}
EqMapKeys == {Str("a"), Int64(3), Str("3")}
EqStringKeys == {"a", "3", "b"}
\* The values nested one level down: both map variants with the same
\* logical content, empty and not, and a list.
EqNested ==
    {Map(Empty), StringMap(Empty), Map(Single(Str("a"), Int64(3))),
     StringMap(Single("a", Int64(3))), List(<<Int64(3)>>), Map(Single(Str("a"), Bytes(<<1>>)))}
EqValues ==
    EqScalars
        \cup Containers(EqInner, EqMapKeys, EqStringKeys, MaxLen)
        \cup Containers(EqNested, EqMapKeys, EqStringKeys, 1)
        \cup {List(<<Bytes(<<1>>), Map(Empty)>>), List(<<Bytes(<<1>>), StringMap(Empty)>>)}

\* The variables of the scenarios that are not running hold None.
XJSONIdle ==
    value = None /\ packed = None /\ wire = None /\ unpacked = None /\ useStringMaps = FALSE
EqualsIdle == a = None /\ b = None /\ equal = "none"
HeapIdle == heap = <<>> /\ heapBefore = <<>>
MergeCallIdle ==
    /\ target = None /\ source = None /\ appendLists = FALSE
    /\ merged = None /\ sourceTree = None
    /\ merges = 0
    /\ changed = FALSE
MergeIdle == HeapIdle /\ MergeCallIdle
CopyIdle ==
    /\ original = None /\ copyMode = "none" /\ theCopy = None /\ originalTree = None
    /\ copiedTree = None /\ side = "none" /\ changes = 0
NodeIdle ==
    /\ nodes = <<>> /\ nodesBefore = <<>> /\ held = {} /\ call = None /\ ops = 0
ReadIdle ==
    /\ readEntry = "none" /\ readFormat = "none" /\ readLocate = FALSE
    /\ readTree = None /\ readResult = None
ReflectIdle ==
    /\ reflector = None /\ instance = None /\ stringMaps = FALSE /\ ardValue = None
    /\ packTarget = None /\ packResult = None /\ rangeReversed = FALSE
CacheIdle ==
    /\ sharedReflector = None /\ cachePc = <<>> /\ cacheType = <<>> /\ cacheLocal = <<>>
    /\ cacheIndex = <<>> /\ cacheReturned = <<>> /\ cacheCalls = <<>>
LocateIdle ==
    /\ yamlNodes = <<>> /\ locatePath = <<>> /\ locateResult = None
ConvertIdle ==
    /\ convertInput = None /\ convertMode = "none" /\ convertTree = None /\ convertResult = None

EqualsInit ==
    /\ phase = "equals"
    /\ a \in EqValues
    /\ b \in EqValues
    /\ equal = "none"
    /\ XJSONIdle
    /\ MergeIdle
    /\ CopyIdle
    /\ NodeIdle
    /\ ReadIdle
    /\ ReflectIdle
    /\ CacheIdle
    /\ LocateIdle
    /\ ConvertIdle

CallEquals ==
    /\ phase = "equals"
    /\ \E o \in Equals(a, b) : equal' = o
    /\ phase' = "equalsDone"
    /\ UNCHANGED <<a, b, xjsonVars, mergeVars, copyVars, nodeVars, readVars, reflectVars, cacheVars, locateVars, convertVars>>

EqualsNext == CallEquals
EqualsSpec == EqualsInit /\ [][EqualsNext]_vars

(***************************************************************************)
(* The XJSON scenarios.  Round trip: a value is packed by PackXJSON,       *)
(* marshalled to JSON, and read back by ReadXJSON, which decodes the JSON  *)
(* and calls UnpackXJSON.  Unpack: UnpackXJSON is handed a tree that did   *)
(* not come from PackXJSON.                                                *)
(***************************************************************************)
XScalars ==
    {Int64(-3), Int64(1), Int64(MaxInt64), Int64(MinInt64), GoInt(1), Int8(7),
     Uint64(120), Uint64(MaxUint64), Uint8(7), Str("a"), Str("12"), Str(""),
     Bytes(<<>>), Bytes(<<1>>), Bytes(<<255, 0>>), Bytes(<<1, 2, 3>>),
     Bytes(<<77, 97, 110, 33>>)}
\* The scalars found inside the generated containers.
XInner == {Int64(-3), GoInt(1), Uint64(120), Str("one"), Bytes(<<1>>)}
\* The keys of the generated one-key maps.
XStringKeys ==
    {XJSONIntegerCode, XJSONUIntegerCode, XJSONBytesCode, XJSONMapCode,
     "$$ard.integer", "$$x", "$x", "a", "key"}
XMapKeys == {Str(k) : k \in XStringKeys} \cup {Int64(1), GoInt(1), Uint64(1), Int64(2)}
\* The keys of the generated maps of several keys.
XFewStringKeys == {XJSONIntegerCode, "a", "key"}
XFewMapKeys == {Str(XJSONIntegerCode), Str("a"), Int64(1), GoInt(1), Int64(2)}
\* The containers nested one level down.
XNested ==
    {Map(Empty), List(<<Int64(1)>>), Map(Single(Int64(1), Str("one"))),
     Map(Single(Str(XJSONIntegerCode), Int64(1))), Map(Single(Str("a"), Int64(1))),
     StringMap(Single(XJSONBytesCode, Str("a"))), Map(Single(Str("$$x"), Int64(1)))}
XValues ==
    XScalars
        \cup Containers(XScalars, XMapKeys, XStringKeys, 1)
        \cup Containers(XInner, XFewMapKeys, XFewStringKeys, MaxLen)
        \cup Containers(XNested, XMapKeys, XStringKeys, 1)

\* What a code of a wire tree may hold: well-formed and malformed payloads.
WirePayloads ==
    {Str("12"), Str("-3"), Str("+5"), Str("x"), Str(""), Str("1x"), Str("-"),
     Str(FormatUint(MaxUint64 + 1)), Str(FormatInt(MinInt64 - 1)),
     Str("AQ=="), Str("!!!!"), Str("AQ="),
     Float64(1), Nil, Bool(TRUE), List(<<>>), StringMap(Empty),
     StringMap(Single(XJSONIntegerCode, Str("12")))}
\* The entries of a "$ard.map" list: well-formed, malformed, and with keys
\* that are no scalars.
WireEntries ==
    {StringMap([f \in {"key", "value"} |-> IF f = "key" THEN k ELSE Float64(1)]) :
        k \in {Str("k"), StringMap(Single(XJSONIntegerCode, Str("1"))),
               StringMap(Single(XJSONIntegerCode, Str("x"))), List(<<>>),
               StringMap(Single(XJSONBytesCode, Str("AQ=="))), Nil}}
        \cup {StringMap(Single("key", Str("k"))), Str("junk"), Nil,
              StringMap([f \in {"key", "value", "extra"} |-> Str("k")])}
WireCodeKeys == {XJSONIntegerCode, XJSONUIntegerCode, XJSONBytesCode, XJSONMapCode,
                 "$$ard.integer", "$$x", "a"}
WireValues ==
    LET payloads == WirePayloads \cup {List(l) : l \in SeqsUpTo(WireEntries, MaxLen)}
        wrappers == {StringMap(Single(k, p)) : k \in WireCodeKeys, p \in payloads}
    IN payloads \cup wrappers
        \cup {AsMap(w) : w \in wrappers}
        \cup {List(<<w>>) : w \in wrappers}
        \cup {StringMap([k \in {XJSONIntegerCode, "a"} |-> p]) : p \in WirePayloads}

XJSONInit ==
    /\ EqualsIdle
    /\ MergeIdle
    /\ CopyIdle
    /\ NodeIdle
    /\ ReadIdle
    /\ ReflectIdle
    /\ CacheIdle
    /\ LocateIdle
    /\ ConvertIdle
    /\ useStringMaps \in BOOLEAN
    /\ packed = None
    /\ unpacked = None
    /\ \/ phase = "value" /\ value \in XValues /\ wire = None
       \/ phase = "wire" /\ value = None /\ wire \in WireValues

\* PackXJSON(value)
CallPackXJSON ==
    /\ phase = "value"
    /\ packed' = PackXJSON(value).v
    /\ phase' = "packed"
    /\ UNCHANGED <<value, wire, unpacked, useStringMaps, equalsVars, mergeVars, copyVars, nodeVars, readVars, reflectVars, cacheVars, locateVars, convertVars>>

\* json.Marshal of the packed tree, and the JSON decoding of ReadXJSON.
EncodeDecodeJSON ==
    /\ phase = "packed"
    /\ wire' = MarshalJSON(packed)
    /\ phase' = "wire"
    /\ UNCHANGED <<value, packed, unpacked, useStringMaps, equalsVars, mergeVars, copyVars, nodeVars, readVars, reflectVars, cacheVars, locateVars, convertVars>>

\* UnpackXJSON(wire, useStringMaps), the last step of ReadXJSON.
CallUnpackXJSON ==
    /\ phase = "wire"
    /\ unpacked' = UnpackXJSON(wire, useStringMaps).v
    /\ phase' = "unpacked"
    /\ UNCHANGED <<value, packed, wire, useStringMaps, equalsVars, mergeVars, copyVars, nodeVars, readVars, reflectVars, cacheVars, locateVars, convertVars>>

XJSONNext == CallPackXJSON \/ EncodeDecodeJSON \/ CallUnpackXJSON
XJSONSpec == XJSONInit /\ [][XJSONNext]_vars

(***************************************************************************)
(* The Merge scenario.  A target and a source are built in memory, two     *)
(* trees that share no container (containers own their elements).  The     *)
(* caller runs target = Merge(target, source, appendLists), may merge the  *)
(* same source again, and changes a container of a result at some point.   *)
(***************************************************************************)
\* The number of Merge calls, and of spare cells in the backing arrays of
\* the lists of target.
MaxMerges == 2
MaxSpare == 1

MScalars == {GoInt(1), Bytes(<<1>>)}
MLists ==
    {List(s) : s \in SeqsUpTo({GoInt(1), GoInt(2)}, MaxLen)}
        \cup {List(<<List(<<GoInt(3)>>)>>), List(<<Map(Single(Str("x"), GoInt(3)))>>)}
\* What the maps hold: a scalar, a list, a map of the same variant.
MNested(variant) ==
    {GoInt(3), List(<<GoInt(3)>>),
     IF variant = "map" THEN Map(Single(Str("x"), GoInt(3)))
     ELSE StringMap(Single("x", GoInt(3)))}
MMaps ==
    {Map(f) : f \in FunsUpTo({Str("x"), Str("y")}, MNested("map"), MaxLen)}
        \cup {StringMap(f) : f \in FunsUpTo({"x", "y"}, MNested("smap"), MaxLen)}
\* Merge({"x": 1, "y": 2}, {"y": 3, "z": 4}, false)
ExampleTarget == StringMap([k \in {"x", "y"} |-> IF k = "x" THEN GoInt(1) ELSE GoInt(2)])
ExampleSource == StringMap([k \in {"y", "z"} |-> IF k = "y" THEN GoInt(3) ELSE GoInt(4)])
ExampleMerged ==
    StringMap([k \in {"x", "y", "z"} |->
        IF k = "x" THEN GoInt(1) ELSE IF k = "y" THEN GoInt(3) ELSE GoInt(4)])
MergeTargets == MScalars \cup MLists \cup MMaps \cup {ExampleTarget}
MergeSources == MScalars \cup MLists \cup MMaps \cup {ExampleSource}

MergeInit ==
    /\ phase = "merge"
    /\ EqualsIdle
    /\ XJSONIdle
    /\ CopyIdle
    /\ NodeIdle
    /\ ReadIdle
    /\ ReflectIdle
    /\ CacheIdle
    /\ LocateIdle
    /\ ConvertIdle
    /\ appendLists \in BOOLEAN
    /\ \E targetTree \in MergeTargets, sourceTree_ \in MergeSources, spare \in 0..MaxSpare :
          LET target_ == Alloc(<<>>, targetTree, spare)
              source_ == Alloc(target_.h, sourceTree_, 0)
          IN /\ heap = source_.h
             /\ target = target_.v
             /\ source = source_.v
             /\ sourceTree = sourceTree_
    /\ merged = None
    /\ heapBefore = <<>>
    /\ merges = 0
    /\ changed = FALSE

\* target = Merge(target, source, appendLists): the first call merges into
\* the target built, a later one into the result of the call before.
CallMerge ==
    /\ phase \in {"merge", "merged", "mutated"}
    /\ merges < MaxMerges
    /\ LET target_ == IF phase = "merge" THEN target ELSE merged
           result == Merge(heap, target_, source, appendLists)
       IN /\ target' = target_
          /\ heap' = result.h
          /\ merged' = result.v
    /\ heapBefore' = heap
    /\ merges' = merges + 1
    /\ phase' = "merged"
    /\ UNCHANGED <<source, appendLists, sourceTree, changed, equalsVars, xjsonVars, copyVars, nodeVars, readVars, reflectVars, cacheVars, locateVars, convertVars>>

\* What the caller stores into the result, and the key it may add to a map.
Stored == GoInt(9)
NewKey(ref) == IF ref.t = "map" THEN Str("new") ELSE "new"

\* map_[key] = Stored, on a map of the result.
SetEntry ==
    /\ phase = "merged"
    /\ ~changed
    /\ \E ref \in Refs(heap, merged) :
          /\ ref.t \in {"map", "smap"}
          /\ \E key \in (DOMAIN EntriesAt(heap, ref)) \cup {NewKey(ref)} :
                heap' = [heap EXCEPT ![ref.at].entries = Put(@, key, Stored)]
    /\ changed' = TRUE
    /\ phase' = "mutated"
    /\ UNCHANGED <<target, source, appendLists, merged, heapBefore, sourceTree, merges,
                   equalsVars, xjsonVars, copyVars, nodeVars, readVars, reflectVars, cacheVars, locateVars, convertVars>>

\* delete(map_, key), on a map of the result.
DeleteEntry ==
    /\ phase = "merged"
    /\ ~changed
    /\ \E ref \in Refs(heap, merged) :
          /\ ref.t \in {"map", "smap"}
          /\ \E key \in DOMAIN EntriesAt(heap, ref) :
                heap' = [heap EXCEPT ![ref.at].entries =
                            [k \in (DOMAIN @) \ {key} |-> @[k]]]
    /\ changed' = TRUE
    /\ phase' = "mutated"
    /\ UNCHANGED <<target, source, appendLists, merged, heapBefore, sourceTree, merges,
                   equalsVars, xjsonVars, copyVars, nodeVars, readVars, reflectVars, cacheVars, locateVars, convertVars>>

\* list[index] = Stored, on a list of the result.
SetElement ==
    /\ phase = "merged"
    /\ ~changed
    /\ \E ref \in Refs(heap, merged) :
          /\ ref.t = "list"
          /\ \E index \in 1..ref.len :
                heap' = [heap EXCEPT ![ref.at].cells[index] = Stored]
    /\ changed' = TRUE
    /\ phase' = "mutated"
    /\ UNCHANGED <<target, source, appendLists, merged, heapBefore, sourceTree, merges,
                   equalsVars, xjsonVars, copyVars, nodeVars, readVars, reflectVars, cacheVars, locateVars, convertVars>>

MergeNext == CallMerge \/ SetEntry \/ DeleteEntry \/ SetElement
MergeSpec == MergeInit /\ [][MergeNext]_vars

(***************************************************************************)
(* The Copy scenario.  A value is built in memory and handed to Copy,      *)
(* CopyStringMapsToMaps or CopyMapsToStringMaps; afterwards the caller     *)
(* changes containers of one of the two trees, the original or the copy.   *)
(***************************************************************************)
\* Like Copy but converts all StringMap to Map.
CopyStringMapsToMaps(h, value_) == copy_(h, value_, convertStringMapsToMaps)
\* The copy converts nothing.
CopyUnconverted(h, value_) == copy_(h, value_, noConversion)
\* Like Copy but converts all Map to StringMap.
CopyMapsToStringMaps(h, value_) == copy_(h, value_, convertMapsToStringMaps)

\* The number of changes the caller makes after the copy.
MaxChanges == 2

CopyLeaves == {GoInt(1), Bytes(<<1>>)}
\* What the containers hold: a scalar, a list, a map of either variant.
CopyNested ==
    {GoInt(1), List(<<GoInt(1)>>), Map(Single(GoInt(1), Bytes(<<1>>))),
     StringMap(Single("a", GoInt(1)))}
\* Map keys: GoInt(1) and Str("1") have the same string.
CopyMapKeys == {Str("1"), GoInt(1), Str("a")}
CopyStringKeys == {"1", "a"}
\* Three levels: a list in a Map in a StringMap in a list.
CopyDeep ==
    {List(<<StringMap(Single("a", Map(Single(Str("a"), List(<<GoInt(1)>>)))))>>),
     Map(Single(GoInt(1), List(<<StringMap(Single("a", Map(Empty)))>>)))}
CopyValues ==
    CopyLeaves \cup Containers(CopyNested, CopyMapKeys, CopyStringKeys, MaxLen) \cup CopyDeep

CopyInit ==
    /\ phase = "copy"
    /\ EqualsIdle
    /\ XJSONIdle
    /\ MergeCallIdle
    /\ NodeIdle
    /\ ReadIdle
    /\ ReflectIdle
    /\ CacheIdle
    /\ LocateIdle
    /\ ConvertIdle
    /\ copyMode \in {noConversion, convertStringMapsToMaps, convertMapsToStringMaps}
    /\ originalTree \in CopyValues
    /\ LET built == Alloc(<<>>, originalTree, 0)
       IN heap = built.h /\ original = built.v
    /\ heapBefore = <<>>
    /\ theCopy = None
    /\ copiedTree = None
    /\ side = "none"
    /\ changes = 0

\* The call returns: result is [h, v].
Returned(result) ==
    /\ heap' = result.h
    /\ theCopy' = result.v
    /\ copiedTree' = Deref(result.h, result.v)
    /\ heapBefore' = heap
    /\ phase' = "copied"
    /\ UNCHANGED <<original, copyMode, originalTree, side, changes,
                   equalsVars, xjsonVars, target, source, appendLists, merged,
                   sourceTree, merges, changed, nodeVars, readVars, reflectVars, cacheVars, locateVars, convertVars>>

\* Copy(original)
CallCopy ==
    /\ phase = "copy"
    /\ copyMode = noConversion
    /\ Returned(Copy(heap, original))

\* CopyStringMapsToMaps(original)
CallCopyStringMapsToMaps ==
    /\ phase = "copy"
    /\ copyMode = convertStringMapsToMaps
    /\ Returned(CopyStringMapsToMaps(heap, original))

\* CopyMapsToStringMaps(original)
CallCopyMapsToStringMaps ==
    /\ phase = "copy"
    /\ copyMode = convertMapsToStringMaps
    /\ Returned(CopyMapsToStringMaps(heap, original))

\* The tree the caller changes: the one it chose with its first change.
Changing(side_) ==
    /\ phase = "copied"
    /\ changes < MaxChanges
    /\ side \in {"none", side_}
    /\ side' = side_
    /\ changes' = changes + 1
    /\ UNCHANGED <<phase, original, copyMode, theCopy, originalTree, copiedTree, heapBefore,
                   equalsVars, xjsonVars, target, source, appendLists, merged,
                   sourceTree, merges, changed, nodeVars, readVars, reflectVars, cacheVars, locateVars, convertVars>>
Root(side_) == IF side_ = "original" THEN original ELSE theCopy

\* An insertion or a replacement: map_[key] = Stored, list[index] = Stored.
Replace ==
    \E side_ \in {"original", "copied"} :
        /\ Changing(side_)
        /\ \E ref \in Refs(heap, Root(side_)) :
              IF ref.t = "list"
              THEN \E index \in 1..ref.len :
                      heap' = [heap EXCEPT ![ref.at].cells[index] = Stored]
              ELSE \E key \in (DOMAIN EntriesAt(heap, ref)) \cup {NewKey(ref)} :
                      heap' = [heap EXCEPT ![ref.at].entries = Put(@, key, Stored)]

\* A deletion: delete(map_, key).
Remove ==
    \E side_ \in {"original", "copied"} :
        /\ Changing(side_)
        /\ \E ref \in Refs(heap, Root(side_)) :
              /\ ref.t \in {"map", "smap"}
              /\ \E key \in DOMAIN EntriesAt(heap, ref) :
                    heap' = [heap EXCEPT ![ref.at].entries =
                                [k \in (DOMAIN @) \ {key} |-> @[k]]]

CopyNext ==
    CallCopy \/ CallCopyStringMapsToMaps \/ CallCopyMapsToStringMaps \/ Replace \/ Remove
CopySpec == CopyInit /\ [][CopyNext]_vars

(***************************************************************************)
(* The Node scenario.  The caller wraps a value built in memory with       *)
(* With, and calls the methods of Node on the nodes it holds: NoNode, the  *)
(* root, and the nodes its calls have returned.  A call that changes       *)
(* nothing and returns no new node is the last one of a run.  In the write *)
(* scenario the caller only calls Get, Set, Append and Delete, and makes   *)
(* one call more.                                                          *)
(***************************************************************************)
\* The number of calls the caller makes.
MaxOps == 3
\* The number of calls of the write scenario.
MaxWrites == 4
\* The number of keys handed to Get and ForceGet.
MaxKeys == 2

\* strings.Split(s, sep)
RECURSIVE Split(_, _)
Split(s, sep) ==
    LET starts == {i \in 1..(Len(s) - Len(sep) + 1) : SubSeq(s, i, i + Len(sep) - 1) = sep}
    IN IF sep = "" THEN [i \in 1..Len(s) |-> Char(s, i)]
       ELSE IF starts = {} THEN <<s>>
       ELSE LET i == CHOOSE j \in starts : \A k \in starts : j <= k
            IN <<SubSeq(s, 1, i - 1)>> \o Split(SubSeq(s, i + Len(sep), Len(s)), sep)

\* PathToKeys(path, separator)
PathToKeys(path_, separator) ==
    LET keys_ == Split(path_, separator)
    IN [index \in 1..Len(keys_) |-> Str(keys_[index])]

\* self.GetPath(path, separator)
GetPath(h, ns, self, path_, separator) == Get(h, ns, self, PathToKeys(path_, separator))
\* self.ForceGetPath(path, separator)
ForceGetPath(h, ns, self, path_, separator) ==
    ForceGet(h, ns, self, PathToKeys(path_, separator))

\* The values wrapped: the tree of the example with a null and a list, in
\* both variants; a key held by a string; a StringMap in a Map; the empty
\* maps; a value that is no map.
Hello == Str("Hello")
NodeMapTree ==
    Map(Put(Single(Str("first"), Map(Put(Single(Str("property1"), Hello), GoInt(1), Nil))),
            GoInt(1), List(<<Hello>>)))
NodeStringMapTree ==
    StringMap(Put(Single("first", StringMap(Put(Single("property1", Hello), "1", Nil))),
                  "1", List(<<Hello>>)))
NodeRoots ==
    {NodeMapTree, NodeStringMapTree, Map(Single(Str("first"), Hello)),
     Map(Single(Str("first"), StringMap(Empty))), Map(Empty), StringMap(Empty), Nil}

\* The keys handed to Get and ForceGet: the last of them is any key, the
\* ones before it lead through "first".
NodeKeys == {Str("first"), Str("property1"), Str("missing"), GoInt(1)}
RECURSIVE NodePaths(_)
NodePaths(n) ==
    IF n = 0 THEN {<<>>}
    ELSE {<<>>} \cup {<<key>> : key \in NodeKeys}
            \cup {<<Str("first")>> \o keys : keys \in NodePaths(n - 1) \ {<<>>}}
\* The paths handed to GetPath and ForceGetPath, with the separator ".".
NodePathStrings == {"first.property1", "first.missing"}
\* The values handed to Set and Append.
NodeValues == {Stored, Nil}

NoResults == [extractor \in Extractors |-> NotFound(Nil)]
Call(op_, self, keys, x, at_, ok_, results_) ==
    [op |-> op_, self |-> self, keys |-> keys, x |-> x, at |-> at_, ok |-> ok_,
     results |-> results_]

NodeBegins(phase_) ==
    /\ phase = phase_
    /\ EqualsIdle
    /\ XJSONIdle
    /\ MergeCallIdle
    /\ CopyIdle
    /\ ReadIdle
    /\ ReflectIdle
    /\ CacheIdle
    /\ LocateIdle
    /\ ConvertIdle
    /\ \E tree \in NodeRoots, spare \in 0..MaxSpare :
          LET built == Alloc(<<>>, tree, spare)
              root == With(NoNodeOnly, built.v)
          IN /\ heap = built.h
             /\ nodes = root.nodes
             /\ held = {NoNode, root.at}
             /\ call = Call("With", NilPointer, <<>>, built.v, root.at, FALSE, NoResults)
    /\ heapBefore = <<>>
    /\ nodesBefore = <<>>
    /\ ops = 0
NodeInit == NodeBegins("node")
NodeWriteInit == NodeBegins("write")
Budget == IF phase = "write" THEN MaxWrites ELSE MaxOps

\* A call returns: the heap and the nodes afterwards, and what the caller
\* keeps of it.
NodeReturned(h, ns, call_) ==
    /\ phase \in {"node", "write"}
    /\ ops < Budget
    /\ ops' = IF h = heap /\ ns = nodes THEN Budget ELSE ops + 1
    /\ heapBefore' = heap
    /\ nodesBefore' = nodes
    /\ heap' = h
    /\ nodes' = ns
    /\ held' = IF call_.at = NilPointer THEN held ELSE held \cup {call_.at}
    /\ call' = call_
    /\ UNCHANGED <<phase, equalsVars, xjsonVars, copyVars, target, source, appendLists,
                   merged, sourceTree, merges, changed, readVars, reflectVars, cacheVars, locateVars, convertVars>>

\* A call that returns a node: result is [nodes, at] or [h, nodes, at].
ReturnedNode(op_, self, keys, h, result) ==
    NodeReturned(h, result.nodes, Call(op_, self, keys, Nil, result.at, FALSE, NoResults))
\* A call that returns a boolean: result is [h, nodes, ok].
ReturnedBool(op_, self, x, result) ==
    NodeReturned(result.h, result.nodes,
                 Call(op_, self, <<>>, x, NilPointer, result.ok, NoResults))

CallNilMeansZero ==
    \E self \in held : ReturnedNode("NilMeansZero", self, <<>>, heap, NilMeansZero(nodes, self))

CallConvertSimilar ==
    \E self \in held :
        ReturnedNode("ConvertSimilar", self, <<>>, heap, ConvertSimilar(nodes, self))

CallGet ==
    \E self \in held, keys \in NodePaths(MaxKeys) :
        LET result == Get(heap, nodes, self, keys)
        IN ReturnedNode("Get", self, keys, result.h, result)

CallForceGet ==
    \E self \in held, keys \in NodePaths(MaxKeys) :
        LET result == ForceGet(heap, nodes, self, keys)
        IN ReturnedNode("ForceGet", self, keys, result.h, result)

CallGetPath ==
    \E self \in held, path_ \in NodePathStrings :
        LET result == GetPath(heap, nodes, self, path_, ".")
        IN ReturnedNode("GetPath", self, PathToKeys(path_, "."), result.h, result)

CallForceGetPath ==
    \E self \in held, path_ \in NodePathStrings :
        LET result == ForceGetPath(heap, nodes, self, path_, ".")
        IN ReturnedNode("ForceGetPath", self, PathToKeys(path_, "."), result.h, result)

CallSet ==
    \E self \in held, x \in NodeValues : ReturnedBool("Set", self, x, Set(heap, nodes, self, x))

CallAppend ==
    \E self \in held, x \in {Stored} :
        ReturnedBool("Append", self, x, NodeAppend(heap, nodes, self, x))

CallDelete ==
    \E self \in held : ReturnedBool("Delete", self, Nil, Delete(heap, nodes, self))

\* The caller reads a node with every typed extractor.
CallExtract ==
    \E self \in held :
        NodeReturned(heap, nodes,
                     Call("Extract", self, <<>>, Nil, NilPointer, FALSE,
                          Extract(heap, nodes, self)))

NodeNext ==
    \/ CallNilMeansZero \/ CallConvertSimilar
    \/ CallGet \/ CallForceGet \/ CallGetPath \/ CallForceGetPath
    \/ CallSet \/ CallAppend \/ CallDelete
    \/ CallExtract
NodeSpec == NodeInit /\ [][NodeNext]_vars
NodeWriteNext == CallGet \/ CallSet \/ CallAppend \/ CallDelete
NodeWriteSpec == NodeWriteInit /\ [][NodeWriteNext]_vars
\* The caller only obtains nodes and appends through them.
NodeAppendNext == CallGet \/ CallAppend
NodeAppendSpec == NodeWriteInit /\ [][NodeAppendNext]_vars

(***************************************************************************)
(* The reading scenario: one call of Read, Decode, Roundtrip or Validate   *)
(* with a format identifier and something to read.                         *)
(***************************************************************************)
SupportedFormats == {"yaml", "json", "xjson", "xml", "cbor", "messagepack"}
\* Identifiers that are not supported: the empty string, identifiers of
\* other versions and spellings.
OtherFormats == {"", "cjson", "YAML", "yml", "msgpack", "toml"}
ReadEntries == {"Read", "Decode", "Roundtrip", "Validate"}

\* What json.Decoder yields: StringMaps, Lists, float64, strings, booleans,
\* null; as extended JSON, well-formed and malformed.
JSONTrees == {tree \in WireValues : ~HasVariant(tree, "map")}
\* What the MessagePack decoder yields: maps are StringMaps, integers and
\* byte sequences keep their type.
MessagePackInner == {GoInt(1), Int8(1), Uint64(3), Bytes(<<1>>), Str("a"), Nil,
                     StringMap(Empty), List(<<StringMap(Empty)>>)}
MessagePackTrees ==
    MessagePackInner
        \cup {StringMap(Single("a", x)) : x \in MessagePackInner}
        \cup {List(<<x, StringMap(Single("a", x))>>) : x \in MessagePackInner}
        \cup {StringMap(Single("a", List(<<StringMap(Single("b", x))>>))) :
                x \in MessagePackInner}
\* What the YAML, XML and CBOR decoders yield.
OtherTrees == {Nil, Str("a"), Map(Single(GoInt(1), List(<<Map(Empty)>>)))}
TreesOf(format_) ==
    {DecodeError} \cup
        (IF format_ \in {"json", "xjson"} THEN JSONTrees
         ELSE IF format_ = "messagepack" THEN MessagePackTrees
         ELSE OtherTrees)

ReadInit ==
    /\ phase = "read"
    /\ EqualsIdle
    /\ XJSONIdle
    /\ MergeIdle
    /\ CopyIdle
    /\ NodeIdle
    /\ ReflectIdle
    /\ CacheIdle
    /\ LocateIdle
    /\ ConvertIdle
    /\ readEntry \in ReadEntries
    /\ readFormat \in SupportedFormats \cup OtherFormats
    /\ readLocate \in BOOLEAN
    /\ readTree \in TreesOf(readFormat)
    /\ readResult = None

\* The call returns.
ReadReturned(entry_, result) ==
    /\ phase = "read"
    /\ readEntry = entry_
    /\ readResult' = result
    /\ phase' = "read-done"
    /\ UNCHANGED <<readEntry, readFormat, readLocate, readTree,
                   equalsVars, xjsonVars, mergeVars, copyVars, nodeVars, reflectVars, cacheVars, locateVars, convertVars>>

CallRead == ReadReturned("Read", Read(readTree, readFormat, readLocate))
CallDecode == ReadReturned("Decode", Decode(readTree, readFormat, readLocate))
CallRoundtrip == ReadReturned("Roundtrip", Roundtrip(readTree, readFormat))
CallValidate == ReadReturned("Validate", Validate(readTree, readFormat))

ReadNext == CallRead \/ CallDecode \/ CallRoundtrip \/ CallValidate
ReadSpec == ReadInit /\ [][ReadNext]_vars

(***************************************************************************)
(* The reflector (src/unnamed/part_003; an earlier PackReflect is in       *)
(* src/reflection.go)                                                      *)
(*                                                                         *)
(* Go types are named by strings.  A Go value of a scalar type is the      *)
(* record of the ARD value of that type; a struct, a slice and a map carry *)
(* their type.  The fields of the model's structs are all exported, there  *)
(* are no pointers below the pointer handed to Pack, and no type has a     *)
(* FromARD or ToARD hook.  An operator on a Reflector takes it and returns *)
(* it with its cache of field tables.                                      *)
(***************************************************************************)
Struct(type_, fields_) == [t |-> "struct", type |-> type_, fields |-> fields_]
Slice(type_, isNil_, elems_) == [t |-> "slice", type |-> type_, isNil |-> isNil_, elems |-> elems_]
HostMap(type_, isNil_, hm_) == [t |-> "hmap", type |-> type_, isNil |-> isNil_, hm |-> hm_]

\* A field of a struct type: its name, its type and its tags.
StructField(name_, type_, tags_) == [name |-> name_, type |-> type_, tags |-> tags_]
NoTags == [i \in {} |-> ""]

StructTypes == {"Scalars", "Inner", "Outer", "Keyed", "Hidden"}
SliceTypes == {"[]Inner", "[]int64"}
MapTypes == {"map[string]int64", "map[int64]string"}

\* reflection.GetStructFields(type_)
GetStructFields(type_) ==
    CASE type_ = "Scalars" ->
            <<StructField("Name", "string", [ard |-> "name"]),
              StructField("Count", "int8", [yaml |-> "count,omitempty"]),
              StructField("Size", "uint64", NoTags),
              StructField("Ratio", "float64", [json |-> "ratio"])>>
      [] type_ = "Inner" ->
            <<StructField("Name", "string", [ard |-> "name,omitempty", json |-> "title"]),
              StructField("Count", "int64", [ard |-> "count"])>>
      [] type_ = "Outer" ->
            <<StructField("Inner", "Inner", [ard |-> "inner"]),
              StructField("Items", "[]Inner", [ard |-> "items,omitempty"]),
              StructField("Index", "map[string]int64", [yaml |-> "index"])>>
      [] type_ = "Keyed" ->
            <<StructField("ByID", "map[int64]string", [ard |-> "byID"])>>
      [] type_ = "Hidden" ->
            <<StructField("Name", "string", [ard |-> "name"]),
              StructField("Secret", "string", [ard |-> "-"])>>

\* reflect.Type.Kind()
Kind(type_) ==
    CASE type_ \in SignedTypes -> "int"
      [] type_ \in UnsignedTypes -> "uint"
      [] type_ = "float64" -> "float"
      [] type_ \in SliceTypes -> "slice"
      [] type_ \in MapTypes -> "map"
      [] type_ \in StructTypes -> "struct"
      [] OTHER -> type_
\* reflect.Type.Elem() and reflect.Type.Key()
TypeElem(type_) ==
    CASE type_ = "[]Inner" -> "Inner"
      [] type_ = "[]int64" -> "int64"
      [] type_ = "map[string]int64" -> "int64"
      [] type_ = "map[int64]string" -> "string"
TypeKey(type_) == IF type_ = "map[string]int64" THEN "string" ELSE "int64"
\* The width of an integer type: int8 and uint8 have half the bits of the
\* widest.
TypeBits(type_) == IF type_ \in {"int8", "uint8"} THEN IntBits \div 2 ELSE IntBits

\* The type of a Go value.
TypeOf(packedValue_) ==
    IF packedValue_.t \in {"struct", "slice", "hmap"} THEN packedValue_.type
    ELSE packedValue_.t

\* The type of the field of a struct type with the given name.
FieldType(type_, name_) ==
    LET fields_ == GetStructFields(type_)
    IN fields_[CHOOSE i \in 1..Len(fields_) : fields_[i].name = name_].type
FieldNames(type_) ==
    LET fields_ == GetStructFields(type_) IN {fields_[i].name : i \in 1..Len(fields_)}

\* reflect.Zero(type_)
RECURSIVE ZeroOf(_)
ZeroOf(type_) ==
    CASE type_ = "string" -> Str("")
      [] type_ = "bool" -> Bool(FALSE)
      [] Kind(type_) \in {"int", "uint", "float"} -> Number(type_, 0)
      [] Kind(type_) = "slice" -> Slice(type_, TRUE, <<>>)
      [] Kind(type_) = "map" -> HostMap(type_, TRUE, Empty)
      [] Kind(type_) = "struct" ->
            Struct(type_, [name_ \in FieldNames(type_) |-> ZeroOf(FieldType(type_, name_))])

\* The order in which a range statement visits the keys of a map: Go does
\* not fix it.
ReverseSeq(s) == [i \in 1..Len(s) |-> s[Len(s) + 1 - i]]
RangeOrder(S, rev) == IF rev THEN ReverseSeq(SetToSeq(S)) ELSE SetToSeq(S)

\* reflectField{name, omitEmpty}
ReflectField(name_, omitEmpty_) == [name |-> name_, omitEmpty |-> omitEmpty_]

\* The body of the loop of newReflectFields for one field of the struct:
\* the table with the entry of the field, if it gets one.
AddReflectField(self, reflectFields_, structField) ==
    LET looked == {i \in 1..Len(self.StructFieldTags) :
                      self.StructFieldTags[i] \in DOMAIN structField.tags}
    IN IF looked # {}
       THEN \* the first tag of StructFieldTags that the field has
            LET first == CHOOSE i \in looked : \A j \in looked : i <= j
                splitTag == Split(structField.tags[self.StructFieldTags[first]], ",")
                name_ == splitTag[1]
            IN IF name_ # "-"
               THEN Put(reflectFields_, name_,
                        ReflectField(structField.name,
                                     Len(splitTag) > 1 /\ splitTag[2] = "omitempty"))
               ELSE reflectFields_
       ELSE \* untagged, and no StructFieldNameMapper
            Put(reflectFields_, structField.name, ReflectField(structField.name, FALSE))

\* The loop of newReflectFields over the fields from the index-th on.
RECURSIVE BuildReflectFields(_, _, _, _)
BuildReflectFields(self, reflectFields_, structFields, index) ==
    IF index > Len(structFields) THEN reflectFields_
    ELSE BuildReflectFields(self, AddReflectField(self, reflectFields_, structFields[index]),
                            structFields, index + 1)

\* The table newReflectFields builds for a type when the cache has none.
FieldTable(self, type_) == BuildReflectFields(self, Empty, GetStructFields(type_), 1)

\* self.newReflectFields(type_): the table, and the reflector with its cache.
newReflectFields(self, type_) ==
    IF type_ \in DOMAIN self.reflectFieldsCache
    THEN [reflectFields |-> self.reflectFieldsCache[type_], self |-> self]
    ELSE LET reflectFields_ == FieldTable(self, type_)
         IN [reflectFields |-> reflectFields_,
             self |-> [self EXCEPT !.reflectFieldsCache = Put(@, type_, reflectFields_)]]

\* reflect.Value.SetInt and SetUint keep the bits that fit the type.
SetInt(type_, n) ==
    LET m == n % (2 ^ TypeBits(type_))
    IN Number(type_, IF m >= 2 ^ (TypeBits(type_) - 1) THEN m - (2 ^ TypeBits(type_)) ELSE m)
SetUint(type_, n) == Number(type_, n % (2 ^ TypeBits(type_)))

\* reflect.MakeSlice: length elements, each the zero value.
RECURSIVE MakeSlice(_, _)
MakeSlice(zero, length) ==
    IF length = 0 THEN <<>> ELSE Append(MakeSlice(zero, length - 1), zero)

\* What pack returns: the error ("" when nil), the value the target holds
\* afterwards, and the reflector.
Packed(err_, packedValue_, self) == [err |-> err_, v |-> packedValue_, self |-> self]

RECURSIVE pack(_, _, _, _)

\* case List: the loop over the elements, list being the slice made.
RECURSIVE PackElements(_, _, _, _, _)
PackElements(self, value_, list_, index, rev) ==
    IF index > Len(value_.list) THEN Packed("", list_, self)
    ELSE LET elem == pack(self, value_.list[index], list_.elems[index], rev)
         IN IF elem.err # "" THEN Packed(elem.err, list_, elem.self)
            ELSE PackElements(elem.self, value_,
                              [list_ EXCEPT !.elems[index] = elem.v], index + 1, rev)

\* case Map / StringMap into a map: the loop over the entries left to visit.
\* ks are the keys as ARD values, a string key of a StringMap as a string.
RECURSIVE PackMapEntries(_, _, _, _, _)
PackMapEntries(self, value_, ks, packedValue_, rev) ==
    IF ks = <<>> THEN Packed("", packedValue_, self)
    ELSE LET k == Head(ks)
             v == IF value_.t = "map" THEN value_.map[k] ELSE value_.smap[k.s]
             k_ == pack(self, k, ZeroOf(TypeKey(packedValue_.type)), rev)
             v_ == pack(k_.self, v, ZeroOf(TypeElem(packedValue_.type)), rev)
         IN IF k_.err # "" THEN Packed("map key", packedValue_, k_.self)
            ELSE IF v_.err # "" THEN Packed("map value", packedValue_, v_.self)
            ELSE PackMapEntries(v_.self, value_, Tail(ks),
                                [packedValue_ EXCEPT !.hm = Put(@, k_.v, v_.v)], rev)

\* The field is left as it is, whatever it is handed.
PackStructFieldSkipped(self, structValue, fieldName, value_, fieldNames, rev) ==
    Packed("", structValue, self)
\* self.packStructField(structPath, structValue, fieldName, value, fieldNames)
packStructField(self, structValue, fieldName, value_, fieldNames, rev) ==
    IF fieldName \notin DOMAIN fieldNames
    THEN \* getField: FieldByName("") is not valid
         IF self.IgnoreMissingStructFields THEN Packed("", structValue, self)
         ELSE Packed("does not exist", structValue, self)
    ELSE LET name_ == fieldNames[fieldName].name
             field == pack(self, value_, structValue.fields[name_], rev)
         IN Packed(field.err, [structValue EXCEPT !.fields[name_] = field.v], field.self)

\* case Map / StringMap into a struct: the loop over the entries.
RECURSIVE PackStructFields(_, _, _, _, _, _)
PackStructFields(self, value_, ks, packedValue_, reflectFields_, rev) ==
    IF ks = <<>> THEN Packed("", packedValue_, self)
    ELSE LET k == Head(ks)
             v == IF value_.t = "map" THEN value_.map[k] ELSE value_.smap[k.s]
             field == packStructField(self, packedValue_, MapKeyToString(k), v,
                                      reflectFields_, rev)
         IN IF field.err # "" THEN field
            ELSE PackStructFields(field.self, value_, Tail(ks), field.v, reflectFields_, rev)

\* The keys of a Map or StringMap as ARD values.
KeyValues(value_) ==
    IF value_.t = "map" THEN DOMAIN value_.map ELSE {Str(k) : k \in DOMAIN value_.smap}

\* self.pack(path, value, packedValue), packedValue being addressable and of
\* no pointer type.
pack(self, value_, packedValue_, rev) ==
    LET packedType == TypeOf(packedValue_)
        kind == Kind(packedType)
    IN CASE value_.t = "nil" ->
               IF self.NilMeansZero THEN Packed("", ZeroOf(packedType), self)
               ELSE IF kind # "map" /\ kind # "slice"
               THEN Packed("is not a pointer, map, or slice", packedValue_, self)
               ELSE Packed("", packedValue_, self)
         [] value_.t = "string" ->
               IF kind = "string" THEN Packed("", value_, self)
               ELSE Packed("is not a string", packedValue_, self)
         [] value_.t = "bool" ->
               IF kind = "bool" THEN Packed("", value_, self)
               ELSE Packed("is not a bool", packedValue_, self)
         [] value_.t \in SignedTypes \cup UnsignedTypes \cup {"float64"} ->
               IF kind = "int"
               THEN Packed("", SetInt(packedType, UtilToInt64(value_).v.n), self)
               ELSE IF kind = "uint"
               THEN Packed("", SetUint(packedType, UtilToUInt64(value_).v.n), self)
               ELSE IF kind = "float"
               THEN Packed("", Number(packedType, UtilToFloat64(value_).v.n), self)
               ELSE Packed("is not a number", packedValue_, self)
         [] value_.t = "bytes" ->
               \* no target of the model has the type []uint8
               Packed("is not a []uint8", packedValue_, self)
         [] value_.t = "list" ->
               IF kind = "slice"
               THEN LET list_ == Slice(packedType, FALSE,
                                       MakeSlice(ZeroOf(TypeElem(packedType)),
                                                 Len(value_.list)))
                        done == PackElements(self, value_, list_, 1, rev)
                    IN IF done.err # "" THEN Packed(done.err, packedValue_, done.self)
                       ELSE done
               ELSE Packed("is not a slice", packedValue_, self)
         [] value_.t \in {"map", "smap"} ->
               IF kind = "map"
               THEN PackMapEntries(self, value_, RangeOrder(KeyValues(value_), rev),
                                   [packedValue_ EXCEPT !.isNil = FALSE], rev)
               ELSE IF kind = "struct"
               THEN LET table == newReflectFields(self, packedType)
                    IN PackStructFields(table.self, value_,
                                        RangeOrder(KeyValues(value_), rev),
                                        packedValue_, table.reflectFields, rev)
               ELSE Packed("is not a map or struct", packedValue_, self)
         [] OTHER -> Packed("is of unsupported type", packedValue_, self)

\* self.Pack(value, packedValuePtr), packedValuePtr pointing to packedValue:
\* for a nil value pack calls SetZero on the pointer handed in, which is not
\* addressable, and reflect panics.
Pack(self, value_, packedValue_, rev) ==
    IF value_.t = "nil" THEN Packed("panic", packedValue_, self)
    ELSE pack(self, value_, packedValue_, rev)

\* The scalar cases of the earlier PackReflect (src/reflection.go): integers
\* go into integer and unsigned targets, floats into float targets.
PackReflectScalar(self, value_, packedValue_) ==
    LET packedType == TypeOf(packedValue_)
        kind == Kind(packedType)
    IN CASE value_.t = "string" ->
               IF kind = "string" THEN Packed("", value_, self)
               ELSE Packed("not a string", packedValue_, self)
         [] value_.t = "bool" ->
               IF kind = "bool" THEN Packed("", value_, self)
               ELSE Packed("not a bool", packedValue_, self)
         [] value_.t \in SignedTypes \cup UnsignedTypes ->
               IF kind = "int"
               THEN Packed("", SetInt(packedType, UtilToInt64(value_).v.n), self)
               ELSE IF kind = "uint"
               THEN Packed("", SetUint(packedType, UtilToUInt64(value_).v.n), self)
               ELSE Packed("not an integer", packedValue_, self)
         [] value_.t = "float64" ->
               IF kind = "float" THEN Packed("", Number(packedType, value_.n), self)
               ELSE Packed("not a float", packedValue_, self)

\* reflection.IsEmpty(value) of kutil, for an ARD value: nil, and a string, a
\* list or a map of length zero.
IsEmpty(value_) ==
    \/ value_.t = "nil"
    \/ value_.t = "string" /\ value_.s = ""
    \/ value_.t = "list" /\ value_.list = <<>>
    \/ value_.t = "map" /\ DOMAIN value_.map = {}
    \/ value_.t = "smap" /\ DOMAIN value_.smap = {}

\* What unpack returns: the error, the value and the reflector.
Unpacked(err_, value_, self) == [err |-> err_, v |-> value_, self |-> self]

RECURSIVE unpack(_, _, _)

\* case reflect.Slice: the loop over the elements.
RECURSIVE UnpackElements(_, _, _, _, _)
UnpackElements(self, packedValue_, list_, index, useStringMaps_) ==
    IF index > Len(packedValue_.elems) THEN Unpacked("", List(list_), self)
    ELSE LET elem == unpack(self, packedValue_.elems[index], useStringMaps_)
         IN IF elem.err # "" THEN Unpacked(elem.err, Nil, elem.self)
            ELSE UnpackElements(elem.self, packedValue_, Append(list_, elem.v),
                                index + 1, useStringMaps_)

\* An entry put into the Map or StringMap being built.
PutEntry(map_, useStringMaps_, key, value_) ==
    IF useStringMaps_ THEN StringMap(Put(map_.smap, MapKeyToString(key), value_))
    ELSE Map(Put(map_.map, key, value_))

\* case reflect.Map: the loop over packedValue.MapKeys().
RECURSIVE UnpackMapEntries(_, _, _, _, _)
UnpackMapEntries(self, packedValue_, ks, map_, useStringMaps_) ==
    IF ks = <<>> THEN Unpacked("", map_, self)
    ELSE LET key_ == unpack(self, Head(ks), useStringMaps_)
             value_ == unpack(key_.self, packedValue_.hm[Head(ks)], useStringMaps_)
         IN IF key_.err # "" THEN Unpacked("map key", Nil, key_.self)
            ELSE IF value_.err # "" THEN Unpacked("map value", Nil, value_.self)
            ELSE UnpackMapEntries(value_.self, packedValue_, Tail(ks),
                                  PutEntry(map_, useStringMaps_, key_.v, value_.v),
                                  useStringMaps_)

\* case reflect.Struct: the loop over the field table.
RECURSIVE UnpackStructFields(_, _, _, _, _, _)
UnpackStructFields(self, packedValue_, reflectFields_, names, map_, useStringMaps_) ==
    IF names = <<>> THEN Unpacked("", map_, self)
    ELSE LET name_ == Head(names)
             field == reflectFields_[name_]
             value_ == unpack(self, packedValue_.fields[field.name], useStringMaps_)
         IN IF value_.err # "" THEN Unpacked(value_.err, Nil, value_.self)
            ELSE UnpackStructFields(
                     value_.self, packedValue_, reflectFields_, Tail(names),
                     IF ~field.omitEmpty \/ ~IsEmpty(value_.v)
                     THEN PutEntry(map_, useStringMaps_, Str(name_), value_.v)
                     ELSE map_,
                     useStringMaps_)

\* self.unpack(path, packedValue, useStringMaps)
unpack(self, packedValue_, useStringMaps_) ==
    LET kind == Kind(TypeOf(packedValue_))
        map_ == IF useStringMaps_ THEN StringMap(Empty) ELSE Map(Empty)
    IN CASE kind \in {"string", "bool", "int", "uint", "float"} ->
               Unpacked("", packedValue_, self)
         [] kind = "slice" -> UnpackElements(self, packedValue_, <<>>, 1, useStringMaps_)
         [] kind = "map" ->
               UnpackMapEntries(self, packedValue_, SetToSeq(DOMAIN packedValue_.hm),
                                map_, useStringMaps_)
         [] kind = "struct" ->
               LET table == newReflectFields(self, TypeOf(packedValue_))
               IN UnpackStructFields(table.self, packedValue_, table.reflectFields,
                                     SetToSeq(DOMAIN table.reflectFields), map_,
                                     useStringMaps_)
         [] OTHER -> Unpacked("is of unsupported type", Nil, self)

\* NewReflector(), with the two flags set as the caller wants them.
NewReflector(ignoreMissing, nilMeansZero_) ==
    [IgnoreMissingStructFields |-> ignoreMissing,
     NilMeansZero |-> nilMeansZero_,
     StructFieldTags |-> <<"ard", "yaml", "json">>,
     reflectFieldsCache |-> Empty]

(***************************************************************************)
(* The reflector scenario.  Symmetry: an instance of a struct type is      *)
(* unpacked (Unpack or UnpackStringMaps) and the value is packed into a    *)
(* zero instance of the type.  Pack alone: a value is packed into a target *)
(* that holds something already.                                           *)
(***************************************************************************)
InnerInstances ==
    {Struct("Inner", [Name |-> Str(n), Count |-> Int64(c)]) :
        n \in {"", "a"}, c \in {0, -1, MaxInt64}}
FewInner ==
    {ZeroOf("Inner"), Struct("Inner", [Name |-> Str("a"), Count |-> Int64(0)]),
     Struct("Inner", [Name |-> Str(""), Count |-> Int64(-1)])}
ItemsValues ==
    {Slice("[]Inner", TRUE, <<>>), Slice("[]Inner", FALSE, <<>>),
     Slice("[]Inner", FALSE, <<Struct("Inner", [Name |-> Str("a"), Count |-> Int64(1)])>>),
     Slice("[]Inner", FALSE,
           <<ZeroOf("Inner"), Struct("Inner", [Name |-> Str("a"), Count |-> Int64(1)])>>)}
IndexValues ==
    {HostMap("map[string]int64", TRUE, Empty), HostMap("map[string]int64", FALSE, Empty),
     HostMap("map[string]int64", FALSE, Single(Str("a"), Int64(1))),
     HostMap("map[string]int64", FALSE,
             [k \in {Str("a"), Str("b")} |-> IF k = Str("a") THEN Int64(0) ELSE Int64(-1)])}
ByIDValues ==
    {HostMap("map[int64]string", TRUE, Empty), HostMap("map[int64]string", FALSE, Empty),
     HostMap("map[int64]string", FALSE, Single(Int64(1), Str("a"))),
     HostMap("map[int64]string", FALSE,
             [k \in {Int64(1), Int64(-1)} |-> IF k = Int64(1) THEN Str("") ELSE Str("b")])}
\* The instances that are unpacked.
Instances ==
    {Struct("Scalars", [Name |-> Str(n), Count |-> Int8(c), Size |-> Uint64(s),
                        Ratio |-> Float64(r)]) :
        n \in {"", "a"}, c \in {0, 3, -(2 ^ ((IntBits \div 2) - 1))},
        s \in {0, MaxUint64}, r \in {0, 2}}
      \cup InnerInstances
      \cup {Struct("Outer", [Inner |-> i, Items |-> l, Index |-> m]) :
              i \in FewInner, l \in ItemsValues, m \in IndexValues}
      \cup {Struct("Keyed", [ByID |-> m]) : m \in ByIDValues}
      \cup {Struct("Hidden", [Name |-> Str(n), Secret |-> Str(s)]) :
              n \in {"", "a"}, s \in {"", "s"}}

\* The scalar values handed to Pack, and nil.
ScalarSources ==
    {Str("a"), Str("12"), Bool(TRUE), GoInt(3), Int8(-2), Int64(MaxInt64), Uint8(7),
     Uint64(MaxUint64), Float64(2), Bytes(<<1>>), Nil}
\* The targets of scalar type, holding a value already.
ScalarTargets ==
    {Str("old"), Bool(FALSE), Int8(5), Int64(5), Uint8(5), Uint64(5), Float64(5)}
\* The target of struct type, its fields holding values already.
StructTarget ==
    Struct("Scalars", [Name |-> Str("old"), Count |-> Int8(5), Size |-> Uint64(5),
                       Ratio |-> Float64(5)])
\* The keys of the one-entry maps packed into it.
FieldKeys == {"name", "count", "Size", "ratio", "Name", "missing"}

ReflectInit ==
    /\ EqualsIdle
    /\ XJSONIdle
    /\ MergeIdle
    /\ CopyIdle
    /\ NodeIdle
    /\ ReadIdle
    /\ CacheIdle
    /\ LocateIdle
    /\ ConvertIdle
    /\ \E ignoreMissing \in BOOLEAN, nilMeansZero_ \in BOOLEAN :
          reflector = NewReflector(ignoreMissing, nilMeansZero_)
    /\ rangeReversed \in BOOLEAN
    /\ packResult = None
    /\ \/ /\ phase = "unpack"
          /\ instance \in Instances
          /\ stringMaps \in BOOLEAN
          /\ ardValue = None
          /\ packTarget = None
       \/ /\ phase = "pack"
          /\ instance = None
          /\ stringMaps = FALSE
          /\ \/ ardValue \in ScalarSources /\ packTarget \in ScalarTargets
             \/ /\ packTarget = StructTarget
                /\ \E k \in FieldKeys, x \in ScalarSources :
                      ardValue \in {Map(Single(Str(k), x)), StringMap(Single(k, x))}

\* self.Unpack(packedValue) or self.UnpackStringMaps(packedValue); the value
\* is then packed into new(T).
CallUnpack ==
    /\ phase = "unpack"
    /\ LET result == unpack(reflector, instance, stringMaps)
       IN /\ ardValue' = result.v
          /\ reflector' = result.self
          /\ packTarget' = ZeroOf(TypeOf(instance))
          /\ phase' = IF result.err = "" THEN "pack" ELSE "unpack-failed"
    /\ UNCHANGED <<instance, stringMaps, rangeReversed, packResult,
                   equalsVars, xjsonVars, mergeVars, copyVars, nodeVars, readVars, cacheVars, locateVars, convertVars>>

\* The call has returned.
PackReturned(entry_, result) ==
    /\ phase = "pack"
    /\ packResult' = [by |-> entry_, err |-> result.err, v |-> result.v]
    /\ reflector' = result.self
    /\ phase' = "packed-into"
    /\ UNCHANGED <<instance, stringMaps, rangeReversed, ardValue, packTarget,
                   equalsVars, xjsonVars, mergeVars, copyVars, nodeVars, readVars, cacheVars, locateVars, convertVars>>

\* self.Pack(value, &packTarget)
CallPack == PackReturned("Pack", Pack(reflector, ardValue, packTarget, rangeReversed))

\* self.PackReflect(value, reflect.ValueOf(&packTarget)) of src/reflection.go,
\* with a scalar value.
CallPackReflect ==
    /\ ardValue \in ScalarSources \ {Bytes(<<1>>), Nil}
    /\ PackReturned("PackReflect", PackReflectScalar(reflector, ardValue, packTarget))

ReflectNext == CallUnpack \/ CallPack \/ CallPackReflect
ReflectSpec == ReflectInit /\ [][ReflectNext]_vars

(***************************************************************************)
(* The field cache scenario.  Goroutines call newReflectFields on one      *)
(* Reflector, for the same type and for different types, at the same time. *)
(* reflectFieldsCache is a sync.Map: its Load and its Store are atomic.    *)
(* A call loads; when the cache has no table it makes one of its own,      *)
(* fills it field by field, stores it and returns it.                      *)
(***************************************************************************)
\* The number of goroutines and of calls each makes.
NumProcs == 3
MaxCalls == 2
Procs == 1..NumProcs
\* The types resolved.
CachedTypes == {"Inner", "Hidden", "Keyed"}

CacheInit ==
    /\ phase = "cache"
    /\ EqualsIdle
    /\ XJSONIdle
    /\ MergeIdle
    /\ CopyIdle
    /\ NodeIdle
    /\ ReadIdle
    /\ ReflectIdle
    /\ LocateIdle
    /\ ConvertIdle
    /\ sharedReflector = NewReflector(FALSE, FALSE)
    /\ cachePc = [p \in Procs |-> "idle"]
    /\ cacheType = [p \in Procs |-> ""]
    /\ cacheLocal = [p \in Procs |-> Empty]
    /\ cacheIndex = [p \in Procs |-> 0]
    /\ cacheReturned = [p \in Procs |-> None]
    /\ cacheCalls = [p \in Procs |-> 0]

CacheOthersUnchanged ==
    UNCHANGED <<phase, equalsVars, xjsonVars, mergeVars, copyVars, nodeVars, readVars,
                reflectVars, locateVars, convertVars>>

\* The table of the call of p is returned to its caller.
ReturnTable(p, type_, reflectFields_) ==
    /\ cacheReturned' = [cacheReturned EXCEPT ![p] = [type |-> type_,
                                                       reflectFields |-> reflectFields_]]
    /\ cacheCalls' = [cacheCalls EXCEPT ![p] = @ + 1]

\* p calls newReflectFields(type_): self.reflectFieldsCache.Load(type_), and
\* the table is returned, or a table is made.
Load(p) ==
    /\ phase = "cache"
    /\ cachePc[p] = "idle"
    /\ cacheCalls[p] < MaxCalls
    /\ \E type_ \in CachedTypes :
          /\ cacheType' = [cacheType EXCEPT ![p] = type_]
          /\ IF type_ \in DOMAIN sharedReflector.reflectFieldsCache
             THEN /\ ReturnTable(p, type_, sharedReflector.reflectFieldsCache[type_])
                  /\ UNCHANGED <<cachePc, cacheLocal, cacheIndex>>
             ELSE /\ cachePc' = [cachePc EXCEPT ![p] = "build"]
                  /\ cacheLocal' = [cacheLocal EXCEPT ![p] = Empty]
                  /\ cacheIndex' = [cacheIndex EXCEPT ![p] = 1]
                  /\ UNCHANGED <<cacheReturned, cacheCalls>>
    /\ UNCHANGED sharedReflector
    /\ CacheOthersUnchanged

\* The loop over the fields may end at any time.
LoopLeftEarly(p) == TRUE
\* for _, structField := range reflection.GetStructFields(type_): no field
\* is left.
LoopDone(p) == cacheIndex[p] > Len(GetStructFields(cacheType[p]))

\* One turn of the loop of p: the next field is entered into its table.
BuildField(p) ==
    /\ phase = "cache"
    /\ cachePc[p] = "build"
    /\ cacheIndex[p] <= Len(GetStructFields(cacheType[p]))
    /\ cacheLocal' = [cacheLocal EXCEPT ![p] =
                         AddReflectField(sharedReflector, @,
                                         GetStructFields(cacheType[p])[cacheIndex[p]])]
    /\ cacheIndex' = [cacheIndex EXCEPT ![p] = @ + 1]
    /\ UNCHANGED <<sharedReflector, cachePc, cacheType, cacheReturned, cacheCalls>>
    /\ CacheOthersUnchanged

\* self.reflectFieldsCache.Store(type_, reflectFields_) and the return.
Store(p) ==
    /\ phase = "cache"
    /\ cachePc[p] = "build"
    /\ LoopDone(p)
    /\ sharedReflector' = [sharedReflector EXCEPT !.reflectFieldsCache =
                               Put(@, cacheType[p], cacheLocal[p])]
    /\ cachePc' = [cachePc EXCEPT ![p] = "idle"]
    /\ ReturnTable(p, cacheType[p], cacheLocal[p])
    /\ UNCHANGED <<cacheType, cacheLocal, cacheIndex>>
    /\ CacheOthersUnchanged

CacheNext == \E p \in Procs : Load(p) \/ BuildField(p) \/ Store(p)
CacheSpec == CacheInit /\ [][CacheNext]_vars

(***************************************************************************)
(* Locating (src/locator.go).  A YAML document is a sequence of yaml.Node  *)
(* objects, a *yaml.Node being an index into it and NilNode the nil        *)
(* pointer.  Content holds pointers, Alias the node an alias stands for.   *)
(* A PathElement holds its string in Value or its int in Index.            *)
(***************************************************************************)
NilNode == 0
DocumentNode(content_) ==
    [Kind |-> "DocumentNode", Tag |-> "", Value |-> "", Content |-> content_,
     Alias |-> NilNode, Line |-> 1, Column |-> 1]
MappingNode(content_, line_, column_) ==
    [Kind |-> "MappingNode", Tag |-> "!!map", Value |-> "", Content |-> content_,
     Alias |-> NilNode, Line |-> line_, Column |-> column_]
SequenceNode(content_, line_, column_) ==
    [Kind |-> "SequenceNode", Tag |-> "!!seq", Value |-> "", Content |-> content_,
     Alias |-> NilNode, Line |-> line_, Column |-> column_]
ScalarNode(tag_, value_, line_, column_) ==
    [Kind |-> "ScalarNode", Tag |-> tag_, Value |-> value_, Content |-> <<>>,
     Alias |-> NilNode, Line |-> line_, Column |-> column_]
AliasNode(alias_, line_, column_) ==
    [Kind |-> "AliasNode", Tag |-> "", Value |-> "", Content |-> <<>>,
     Alias |-> alias_, Line |-> line_, Column |-> column_]
StrNode(value_, line_, column_) == ScalarNode("!!str", value_, line_, column_)
MergeKey(line_, column_) == ScalarNode("!!merge", "<<", line_, column_)

FieldPathType == "FieldPathType"
MapPathType == "MapPathType"
ListPathType == "ListPathType"
SequencedListPathType == "SequencedListPathType"
NewFieldPathElement(name_) == [Type |-> FieldPathType, Value |-> name_]
NewMapPathElement(name_) == [Type |-> MapPathType, Value |-> name_]
NewListPathElement(index) == [Type |-> ListPathType, Index |-> index]
NewSequencedListPathElement(index) == [Type |-> SequencedListPathType, Index |-> index]

RECURSIVE FindYAMLNode(_, _, _)
RECURSIVE FindInMapping(_, _, _, _)
\* The loop of the MappingNode case from pair i on (i is 1-based here).
FindInMapping(doc, node, path_, i) ==
    LET length == Len(doc[node].Content)
        keyNode == doc[node].Content[i]
        valueNode == doc[node].Content[i + 1]
        matches == /\ doc[keyNode].Kind = "ScalarNode"
                   /\ doc[keyNode].Tag = "!!str"
                   /\ doc[keyNode].Value = path_[1].Value
        direct == LET foundNode == FindYAMLNode(doc, valueNode, Tail(path_))
                  IN IF foundNode = valueNode THEN keyNode ELSE foundNode
        onward == IF matches THEN direct ELSE FindInMapping(doc, node, path_, i + 2)
    IN IF i > length THEN node
       ELSE IF i + 1 > length THEN keyNode
       ELSE IF doc[keyNode].Kind = "ScalarNode" /\ doc[keyNode].Tag = "!!merge"
            THEN LET foundNode == FindYAMLNode(doc, valueNode, path_)
                 IN IF foundNode # valueNode THEN foundNode ELSE onward
            ELSE onward

FindYAMLNode(doc, node, path_) ==
    IF Len(path_) = 0 THEN node
    ELSE CASE doc[node].Kind = "AliasNode" -> FindYAMLNode(doc, doc[node].Alias, path_)
           [] doc[node].Kind = "DocumentNode" ->
                 IF Len(doc[node].Content) > 0
                 THEN FindYAMLNode(doc, doc[node].Content[1], path_)
                 ELSE node
           [] doc[node].Kind = "MappingNode" ->
                 IF path_[1].Type \in {FieldPathType, MapPathType}
                 THEN FindInMapping(doc, node, path_, 1)
                 ELSE node
           [] doc[node].Kind = "SequenceNode" ->
                 IF path_[1].Type = ListPathType
                 THEN IF path_[1].Index < Len(doc[node].Content)
                      THEN FindYAMLNode(doc, doc[node].Content[path_[1].Index + 1],
                                        Tail(path_))
                      ELSE node
                 ELSE IF path_[1].Type = SequencedListPathType
                 THEN IF path_[1].Index < Len(doc[node].Content)
                      THEN LET content_ == doc[node].Content[path_[1].Index + 1]
                           IN IF /\ doc[content_].Kind = "MappingNode"
                                 /\ Len(doc[content_].Content) = 2
                              THEN FindYAMLNode(doc, doc[content_].Content[2], Tail(path_))
                              ELSE content_
                      ELSE node
                 ELSE node
           [] OTHER -> node

\* The results of Locate.
Position(doc, node) == <<doc[node].Line, doc[node].Column, TRUE>>
NotLocated == <<-1, -1, FALSE>>
\* YAMLLocator.Locate(path...), RootNode being the first node of doc.
Locate(doc, path_) ==
    LET node == FindYAMLNode(doc, 1, path_)
    IN IF node # NilNode THEN Position(doc, node) ELSE NotLocated

(***************************************************************************)
(* The locating scenario: a document as yaml.v3 decodes it (ReadYAML hands *)
(* the document node to NewYAMLLocator) and a path.                        *)
(*                                                                         *)
(*    1  base: &b            8  last:                                      *)
(*    2    k: one            9    k: four                                  *)
(*    3    m: two           10    <<: *b            (or <<: {k: ..})       *)
(*    4  first:             11  only:                                      *)
(*    5    <<: *b           12    <<: *b                                   *)
(*    6    k: three         13    n: five                                  *)
(*                          14  items:                                     *)
(*                          15    - x                                      *)
(*                          16    - k: six                                 *)
(*                                                                         *)
(* In the second document the merged mappings are written in place.        *)
(***************************************************************************)
MergedByAlias == <<
    DocumentNode(<<2>>),
    MappingNode(<<3, 4, 9, 10, 15, 16, 21, 22, 27, 28>>, 1, 1),
    StrNode("base", 1, 1),
    MappingNode(<<5, 6, 7, 8>>, 2, 3),
    StrNode("k", 2, 3), StrNode("one", 2, 6), StrNode("m", 3, 3), StrNode("two", 3, 6),
    StrNode("first", 4, 1),
    MappingNode(<<11, 12, 13, 14>>, 5, 3),
    MergeKey(5, 3), AliasNode(4, 5, 7), StrNode("k", 6, 3), StrNode("three", 6, 6),
    StrNode("last", 8, 1),
    MappingNode(<<17, 18, 19, 20>>, 9, 3),
    StrNode("k", 9, 3), StrNode("four", 9, 6), MergeKey(10, 3), AliasNode(4, 10, 7),
    StrNode("only", 11, 1),
    MappingNode(<<23, 24, 25, 26>>, 12, 3),
    MergeKey(12, 3), AliasNode(4, 12, 7), StrNode("n", 13, 3), StrNode("five", 13, 6),
    StrNode("items", 14, 1),
    SequenceNode(<<29, 30>>, 15, 3),
    StrNode("x", 15, 5),
    MappingNode(<<31, 32>>, 16, 5),
    StrNode("k", 16, 5), StrNode("six", 16, 8) >>

MergedInPlace == <<
    DocumentNode(<<2>>),
    MappingNode(<<3, 4, 9, 10, 15, 16, 21, 22, 27, 28>>, 1, 1),
    StrNode("base", 1, 1),
    MappingNode(<<5, 6, 7, 8>>, 2, 3),
    StrNode("k", 2, 3), StrNode("one", 2, 6), StrNode("m", 3, 3), StrNode("two", 3, 6),
    StrNode("first", 4, 1),
    MappingNode(<<11, 12, 13, 14>>, 5, 3),
    MergeKey(5, 3), MappingNode(<<33, 34, 35, 36>>, 5, 7), StrNode("k", 6, 3), StrNode("three", 6, 6),
    StrNode("last", 8, 1),
    MappingNode(<<17, 18, 19, 20>>, 9, 3),
    StrNode("k", 9, 3), StrNode("four", 9, 6), MergeKey(10, 3), MappingNode(<<37, 38, 39, 40>>, 10, 7),
    StrNode("only", 11, 1),
    MappingNode(<<23, 24, 25, 26>>, 12, 3),
    MergeKey(12, 3), MappingNode(<<41, 42, 43, 44>>, 12, 7), StrNode("n", 13, 3), StrNode("five", 13, 6),
    StrNode("items", 14, 1),
    SequenceNode(<<29, 30>>, 15, 3),
    StrNode("x", 15, 5),
    MappingNode(<<31, 32>>, 16, 5),
    StrNode("k", 16, 5), StrNode("six", 16, 8),
    StrNode("k", 5, 8), StrNode("one", 5, 11), StrNode("m", 5, 16), StrNode("two", 5, 19),
    StrNode("k", 10, 8), StrNode("one", 10, 11), StrNode("m", 10, 16), StrNode("two", 10, 19),
    StrNode("k", 12, 8), StrNode("one", 12, 11), StrNode("m", 12, 16), StrNode("two", 12, 19) >>

Documents == {MergedByAlias, MergedInPlace}
\* The longest path.
MaxPath == 3
PathNames == {"base", "first", "last", "only", "items", "k", "m", "n", "z"}
PathIndexes == 0..2
PathElements ==
    {NewFieldPathElement(name_) : name_ \in PathNames}
    \cup {NewMapPathElement(name_) : name_ \in PathNames}
    \cup {NewListPathElement(index) : index \in PathIndexes}
    \cup {NewSequencedListPathElement(index) : index \in PathIndexes}
Paths == UNION {[1..n -> PathElements] : n \in 0..MaxPath}

LocateInit ==
    /\ phase = "locate"
    /\ EqualsIdle
    /\ XJSONIdle
    /\ MergeIdle
    /\ CopyIdle
    /\ NodeIdle
    /\ ReadIdle
    /\ ReflectIdle
    /\ CacheIdle
    /\ ConvertIdle
    /\ yamlNodes \in Documents
    /\ locatePath \in Paths
    /\ locateResult = None

\* locator.Locate(path...)
CallLocate ==
    /\ phase = "locate"
    /\ phase' = "located"
    /\ locateResult' = Locate(yamlNodes, locatePath)
    /\ UNCHANGED <<yamlNodes, locatePath>>
    /\ UNCHANGED <<equalsVars, xjsonVars, mergeVars, copyVars, nodeVars, readVars,
                   reflectVars, cacheVars, convertVars>>

LocateNext == CallLocate
LocateSpec == LocateInit /\ [][LocateNext]_vars

(***************************************************************************)
(* The conversion scenario.  A value is built in memory and handed to      *)
(* ConvertStringMapsToMaps or ConvertMapsToStringMaps; the caller keeps    *)
(* its reference to the value.                                             *)
(***************************************************************************)
ConvertInit ==
    /\ phase = "convert"
    /\ EqualsIdle
    /\ XJSONIdle
    /\ MergeCallIdle
    /\ CopyIdle
    /\ NodeIdle
    /\ ReadIdle
    /\ ReflectIdle
    /\ CacheIdle
    /\ LocateIdle
    /\ convertTree \in CopyValues
    /\ LET built == Alloc(<<>>, convertTree, 0)
       IN heap = built.h /\ convertInput = built.v
    /\ heapBefore = <<>>
    /\ convertMode = "none"
    /\ convertResult = None

\* The call returns: result is [h, v, changed].
ConvertReturned(mode, result) ==
    /\ phase = "convert"
    /\ phase' = "converted"
    /\ heap' = result.h
    /\ heapBefore' = heap
    /\ convertMode' = mode
    /\ convertResult' = [v |-> result.v, changed |-> result.changed]
    /\ UNCHANGED <<convertInput, convertTree>>
    /\ UNCHANGED <<equalsVars, xjsonVars, target, source, appendLists, merged,
                   sourceTree, merges, changed, copyVars, nodeVars, readVars, reflectVars,
                   cacheVars, locateVars>>

\* ConvertStringMapsToMaps(input)
CallConvertStringMapsToMaps ==
    ConvertReturned(convertStringMapsToMaps, ConvertStringMapsToMaps(heap, convertInput))

\* ConvertMapsToStringMaps(input)
CallConvertMapsToStringMaps ==
    ConvertReturned(convertMapsToStringMaps, ConvertMapsToStringMaps(heap, convertInput))

ConvertNext == CallConvertStringMapsToMaps \/ CallConvertMapsToStringMaps
ConvertSpec == ConvertInit /\ [][ConvertNext]_vars

(***************************************************************************)
(* Claims about Equals                                                     *)
(***************************************************************************)
\* x and y have the same shape and differ in map variant at some position:
\* a Map stands where the other has a StringMap.
RECURSIVE Mixed(_, _)
Mixed(x, y) ==
    \/ {x.t, y.t} = {"map", "smap"}
    \/ /\ x.t = y.t
       /\ x.t \in {"map", "smap"}
       /\ Keys(x) = Keys(y)
       /\ \E k \in Keys(x) : Mixed(Entries(x)[k], Entries(y)[k])
    \/ /\ x.t = "list"
       /\ y.t = "list"
       /\ Len(x.list) = Len(y.list)
       /\ \E i \in 1..Len(x.list) : Mixed(x.list[i], y.list[i])

\* x holds a byte sequence at some depth.
RECURSIVE HasBytes(_)
HasBytes(x) ==
    CASE x.t = "bytes" -> TRUE
      [] x.t = "list" -> \E i \in 1..Len(x.list) : HasBytes(x.list[i])
      [] x.t \in {"map", "smap"} -> \E k \in Keys(x) : HasBytes(Entries(x)[k])
      [] OTHER -> FALSE

C9_ReflexiveSymmetric ==
    phase = "equalsDone" =>
        /\ equal \in {"true", "false"}
        /\ a = b => equal = "true"
        /\ Equals(b, a) = {equal}

\* C10: Equals is structural: two maps of one variant are equal exactly when
\* they have the same size, the same keys and equal values under every key;
\* two lists exactly when they have the same length and equal elements at
\* every index; any other pair exactly under Go's ==, so that a container
\* never equals a scalar and values of different types are unequal.
C10_Structural ==
    phase = "equalsDone" =>
        /\ a.t = b.t /\ a.t \in {"map", "smap"} =>
            (equal = "true" <=>
                /\ Cardinality(Keys(a)) = Cardinality(Keys(b))
                /\ Keys(a) = Keys(b)
                /\ \A k \in Keys(a) : Equals(Entries(a)[k], Entries(b)[k]) = {"true"})
        /\ a.t = "list" /\ b.t = "list" =>
            (equal = "true" <=>
                /\ Len(a.list) = Len(b.list)
                /\ \A i \in 1..Len(a.list) : Equals(a.list[i], b.list[i]) = {"true"})
        /\ ~(a.t = b.t /\ IsContainer(a)) =>
            /\ a.t # b.t => equal = "false"
            /\ a.t = b.t /\ a.t # "bytes" => (equal = "true" <=> a = b)
            /\ a.t = b.t /\ a.t # "bytes" => equal \in {"true", "false"}

\* C10 witness: Equals has found two two-key Maps equal, and an int64 3
\* unequal to a float64 3.
C10_Witness ==
    /\ phase = "equalsDone"
    /\ \/ /\ a.t = "map" /\ b.t = "map"
          /\ Cardinality(Keys(a)) = 2
          /\ equal = "true"
       \/ a = Int64(3) /\ b = Float64(3) /\ equal = "false"

(***************************************************************************)
(* Claims about Merge                                                      *)
(***************************************************************************)
\* The latest call was handed two maps of the same variant, two lists.
SameVariantMaps == target.t \in {"map", "smap"} /\ source.t = target.t
TwoLists == target.t = "list" /\ source.t = "list"
\* Every container reachable from x was allocated by the latest call.
Fresh(x) == \A addr \in Reach(heap, x) : addr > Len(heapBefore)
\* x, in memory now, has the content y had when the latest call began.
SameContent(x, y) == Deref(heap, x) = Deref(heapBefore, y)

\* The content of a merge, on trees: maps of one variant key by key, lists
\* concatenated when append, the source otherwise.
RECURSIVE MergedTree(_, _, _)
MergedTree(x, y, append_) ==
    IF x.t \in {"map", "smap"} /\ y.t = x.t
    THEN LET f == [k \in Keys(x) \cup Keys(y) |->
                    IF k \notin Keys(y) THEN Entries(x)[k]
                    ELSE IF k \notin Keys(x) THEN Entries(y)[k]
                    ELSE MergedTree(Entries(x)[k], Entries(y)[k], append_)]
         IN IF x.t = "map" THEN Map(f) ELSE StringMap(f)
    ELSE IF append_ /\ x.t = "list" /\ y.t = "list" THEN List(x.list \o y.list)
    ELSE y

\* C4: Merge of two maps of the same variant returns the target map object
\* itself; a key of target alone still holds the value it held, a key of
\* both holds the merge of the two values, a key of source alone holds a
\* copy of the source value; Merge({x:1,y:2}, {y:3,z:4}, false) is
\* {x:1,y:3,z:4}.
C4_MergeMaps ==
    (phase = "merged" /\ SameVariantMaps) =>
        LET before == EntriesAt(heapBefore, target)
            from == EntriesAt(heapBefore, source)
            after == EntriesAt(heap, merged)
        IN /\ merged = target
           /\ DOMAIN after = (DOMAIN before) \cup (DOMAIN from)
           /\ \A k \in (DOMAIN before) \ (DOMAIN from) :
                 after[k] = before[k] /\ SameContent(after[k], before[k])
           /\ \A k \in (DOMAIN before) \cap (DOMAIN from) :
                 Deref(heap, after[k]) =
                     MergedTree(Deref(heapBefore, before[k]), Deref(heapBefore, from[k]),
                                appendLists)
           /\ \A k \in (DOMAIN from) \ (DOMAIN before) :
                 SameContent(after[k], from[k]) /\ Fresh(after[k])
           /\ (Deref(heapBefore, target) = ExampleTarget /\ sourceTree = ExampleSource
                    /\ ~appendLists)
                 => Deref(heap, merged) = ExampleMerged

\* The example has been merged: x is of target alone, y of both, z of
\* source alone.
C4_Witness ==
    /\ phase = "merged"
    /\ merges = 1
    /\ ~appendLists
    /\ SameVariantMaps
    /\ Deref(heapBefore, target) = ExampleTarget
    /\ sourceTree = ExampleSource
    /\ Deref(heap, merged) = ExampleMerged

\* C5: Merge never mutates or aliases the source: after any number of calls
\* with the same source, and after any change made to a container of a
\* result, the source has the content it was built with and no container
\* of the source is reachable from the result.
C5_SourceUntouched ==
    (phase \in {"merged", "mutated"}) =>
        /\ Deref(heap, source) = sourceTree
        /\ Reach(heap, merged) \cap Reach(heap, source) = {}

\* The same source, holding a nested container, has been merged twice and a
\* container of a result has been changed.
C5_Witness ==
    /\ changed
    /\ merges = MaxMerges
    /\ Cardinality(Reach(heap, source)) >= 2
    /\ Reach(heap, merged) # {}
    /\ Deref(heap, merged) # sourceTree

\* result is targetList followed by copies of the elements of sourceList.
Appended(result, targetList, sourceList) ==
    /\ result.t = "list"
    /\ result.len = targetList.len + sourceList.len
    /\ \A i \in 1..targetList.len :
          /\ heap[result.at].cells[i] = heapBefore[targetList.at].cells[i]
          /\ SameContent(heap[result.at].cells[i], heapBefore[targetList.at].cells[i])
    /\ \A i \in 1..sourceList.len :
          /\ SameContent(heap[result.at].cells[targetList.len + i],
                         heapBefore[sourceList.at].cells[i])
          /\ Fresh(heap[result.at].cells[targetList.len + i])

Fallback == phase = "merged" /\ ~SameVariantMaps /\ ~(appendLists /\ TwoLists)

\* In the fallback the result has the content of source and is made of
\* containers allocated by the call.
FallbackCopies == Fallback => (Deref(heap, merged) = sourceTree /\ Fresh(merged))

\* C7: in the fallback Merge returns a deep copy of source that Equals
\* source and shares no container with source or target, and nothing of
\* target is in the result.
C7_FallbackEqualsSource ==
    Fallback =>
        /\ Equals(Deref(heap, merged), Deref(heap, source)) = {"true"}
        /\ Deref(heap, merged) = sourceTree
        /\ Fresh(merged)

(***************************************************************************)
(* Claims about Copy                                                       *)
(***************************************************************************)
\* The copy is made of containers allocated by the call, shares none with
\* the original, has its content, variants included, and a change of one of
\* the two trees leaves the other with the content it had.
CopyIndependent ==
    (phase = "copied" /\ copyMode = noConversion) =>
        /\ copiedTree = originalTree
        /\ \A addr \in Reach(heap, theCopy) : addr > Len(heapBefore)
        /\ Reach(heap, theCopy) \cap Reach(heap, original) = {}
        /\ side # "copied" => Deref(heap, theCopy) = copiedTree
        /\ side # "original" => Deref(heap, original) = originalTree

\* C11: Copy returns an independent tree: Copy(v) Equals v, every container
\* of the result is a new container of the variant of the one it copies, no
\* container is shared between v and the result, and insertions, deletions
\* and replacements applied to one of the two trees leave the other
\* unchanged.
C11_CopyIndependent ==
    (phase = "copied" /\ copyMode = noConversion) =>
        /\ Equals(copiedTree, originalTree) = {"true"}
        /\ CopyIndependent

\* The key of x an entry is found under after the conversion, and the
\* variant of the map: Map keys are stringified, StringMap keys become
\* string keys of a Map.
KeyAfter(x, k, mode_) ==
    IF x.t = "map" /\ mode_ = convertMapsToStringMaps THEN MapKeyToString(k)
    ELSE IF x.t = "smap" /\ mode_ = convertStringMapsToMaps THEN Str(k)
    ELSE k
VariantAfter(mode_) == IF mode_ = convertMapsToStringMaps THEN "smap" ELSE "map"

\* y is x converted: lists of the same length, the same leaves, every map of
\* the variant asked for; the same keys modulo the conversion when no two
\* keys of a map have the same string, and otherwise every entry of y is
\* the conversion of an entry of x with that string.
RECURSIVE Converted(_, _, _)
Converted(x, y, mode_) ==
    CASE x.t = "list" ->
            /\ y.t = "list"
            /\ Len(y.list) = Len(x.list)
            /\ \A i \in 1..Len(x.list) : Converted(x.list[i], y.list[i], mode_)
      [] x.t \in {"map", "smap"} ->
            /\ y.t = VariantAfter(mode_)
            /\ Keys(y) = {KeyAfter(x, k, mode_) : k \in Keys(x)}
            /\ IF \A k1, k2 \in Keys(x) :
                      KeyAfter(x, k1, mode_) = KeyAfter(x, k2, mode_) => k1 = k2
               THEN \A k \in Keys(x) :
                       Converted(Entries(x)[k], Entries(y)[KeyAfter(x, k, mode_)], mode_)
               ELSE \A k2 \in Keys(y) : \E k \in Keys(x) :
                       /\ KeyAfter(x, k, mode_) = k2
                       /\ Converted(Entries(x)[k], Entries(y)[k2], mode_)
      [] OTHER -> y = x

\* C12: the result of CopyMapsToStringMaps holds no Map and the result of
\* CopyStringMapsToMaps no StringMap, at any depth; it has the list lengths
\* and the leaves of v and, absent collisions of key strings, the keys of v
\* modulo stringification; v is left unchanged.
C12_ConvertingCopies ==
    (phase = "copied" /\ copyMode # noConversion) =>
        /\ copyMode = convertMapsToStringMaps => ~HasVariant(copiedTree, "map")
        /\ copyMode = convertStringMapsToMaps => ~HasVariant(copiedTree, "smap")
        /\ Converted(originalTree, copiedTree, copyMode)
        /\ changes = 0 => Deref(heap, original) = originalTree

\* A Map in a StringMap in a list has been copied to StringMaps.
C12_Witness ==
    /\ phase = "copied"
    /\ changes = 0
    /\ copyMode = convertMapsToStringMaps
    /\ originalTree \in CopyDeep
    /\ HasVariant(originalTree, "map")
    /\ HasVariant(originalTree, "smap")
    /\ HasVariant(originalTree, "list")
    /\ ~HasVariant(copiedTree, "map")

(***************************************************************************)
(* Claims about extended JSON                                              *)
(***************************************************************************)
\* x with every integer as its 64-bit representative, map keys included.
RECURSIVE To64(_)
To64(x) ==
    CASE x.t \in SignedTypes -> Int64(x.n)
      [] x.t \in UnsignedTypes -> Uint64(x.n)
      [] x.t = "list" -> List([i \in 1..Len(x.list) |-> To64(x.list[i])])
      [] x.t = "map" ->
            Map([key \in {To64(k) : k \in DOMAIN x.map} |->
                    To64(x.map[CHOOSE k \in DOMAIN x.map : To64(k) = key])])
      [] x.t = "smap" -> StringMap([key \in DOMAIN x.smap |-> To64(x.smap[key])])
      [] OTHER -> x

\* x holds a StringMap at some depth.
RECURSIVE HasStringMap(_)
HasStringMap(x) ==
    CASE x.t = "smap" -> TRUE
      [] x.t = "list" -> \E i \in 1..Len(x.list) : HasStringMap(x.list[i])
      [] x.t = "map" -> \E k \in DOMAIN x.map : HasStringMap(x.map[k])
      [] OTHER -> FALSE

\* C1: extended-JSON round trip: for every value built from integers,
\* unsigned integers, byte sequences, strings, Lists and Maps, PackXJSON,
\* the JSON wire form and UnpackXJSON with useStringMaps=false yield a value
\* that Equals the original (integers as their 64-bit representative).
C1_RoundTrip ==
    (phase = "unpacked" /\ value # None /\ ~useStringMaps /\ ~HasStringMap(value)) =>
        Equals(unpacked, To64(value)) = {"true"}

\* The wire form of x: packed, marshalled and decoded.
WireOf(x) == MarshalJSON(PackXJSON(x).v)
\* The {"key": ..., "value": ...} entry "$ard.map" holds for key k of Map x.
WireEntry(x, k) ==
    StringMap([f \in {"key", "value"} |-> IF f = "key" THEN WireOf(k) ELSE WireOf(x.map[k])])
IsStringKey(k) == k.t = "string"
\* The wire forms of the scalars, which C2 states alike before and after
\* its amendment.
C2_ScalarForms ==
    /\ value.t \in SignedTypes =>
            wire = StringMap(Single("$ard.integer", Str(FormatInt(value.n))))
    /\ value = Int64(-3) => wire = StringMap(Single("$ard.integer", Str("-3")))
    /\ value.t \in UnsignedTypes =>
            wire = StringMap(Single("$ard.uinteger", Str(FormatUint(value.n))))
    /\ value = Uint64(120) => wire = StringMap(Single("$ard.uinteger", Str("120")))
    /\ value.t = "bytes" =>
            /\ wire = StringMap(Single("$ard.bytes", Str(ToBase64(value.bytes))))
            /\ FromBase64(wire.smap["$ard.bytes"].s) = [ok |-> TRUE, v |-> value.bytes]
    /\ value = Bytes(<<1>>) => wire = StringMap(Single("$ard.bytes", Str("AQ==")))

\* C2 as stated: integers, unsigned integers and byte sequences become their
\* one-key wrappers; a Map with a non-string key becomes {"$ard.map": [...]}
\* with exactly one {key, value} entry per key of the Map; a Map whose keys
\* are all strings becomes a StringMap with the same key set.
C2_WireFormsAsStated ==
    (phase = "wire" /\ value # None) =>
        /\ C2_ScalarForms
        /\ (value.t = "map" /\ \E k \in DOMAIN value.map : ~IsStringKey(k)) =>
            /\ wire.t = "smap"
            /\ DOMAIN wire.smap = {"$ard.map"}
            /\ wire.smap["$ard.map"].t = "list"
            /\ Len(wire.smap["$ard.map"].list) = Cardinality(DOMAIN value.map)
            /\ {wire.smap["$ard.map"].list[i] : i \in 1..Len(wire.smap["$ard.map"].list)}
                    = {WireEntry(value, k) : k \in DOMAIN value.map}
        /\ (value.t = "map" /\ \A k \in DOMAIN value.map : IsStringKey(k)) =>
            /\ wire.t = "smap"
            /\ DOMAIN wire.smap = {k.s : k \in DOMAIN value.map}

\* C2, amended: as above, but "$ard.map" holds one entry per distinct packed
\* key (integer keys of different widths and the same value share one
\* entry, holding the value of one of them), and a one-key Map whose key is
\* one of the four codes becomes the one-key StringMap with "$" prepended
\* to the key.
C2_WireForms ==
    (phase = "wire" /\ value # None) =>
        /\ C2_ScalarForms
        /\ (value.t = "map" /\ \E k \in DOMAIN value.map : ~IsStringKey(k)) =>
            LET entries == wire.smap["$ard.map"].list IN
            /\ wire.t = "smap"
            /\ DOMAIN wire.smap = {"$ard.map"}
            /\ wire.smap["$ard.map"].t = "list"
            /\ Len(entries) = Cardinality({To64(k) : k \in DOMAIN value.map})
            /\ \A i \in 1..Len(entries) :
                    \E k \in DOMAIN value.map : entries[i] = WireEntry(value, k)
            /\ \A k \in DOMAIN value.map :
                    \E i \in 1..Len(entries) : entries[i].smap["key"] = WireOf(k)
        /\ (value.t = "map" /\ \A k \in DOMAIN value.map : IsStringKey(k)) =>
            /\ wire.t = "smap"
            /\ IF Cardinality(DOMAIN value.map) = 1
                    /\ \E k \in DOMAIN value.map : IsXJSONCode(k.s)
               THEN \E k \in DOMAIN value.map :
                        wire.smap = Single("$" \o k.s, WireOf(value.map[k]))
               ELSE /\ DOMAIN wire.smap = {k.s : k \in DOMAIN value.map}
                    /\ \A k \in DOMAIN value.map : wire.smap[k.s] = WireOf(value.map[k])

\* C2 witness: the wire form of the Map {1: "one", 2: "one"} has been made,
\* and is the "$ard.map" wrapper with two entries.
C2_Witness ==
    /\ phase = "wire"
    /\ value = Map([k \in {Int64(1), Int64(2)} |-> Str("one")])
    /\ wire.t = "smap"
    /\ DOMAIN wire.smap = {"$ard.map"}
    /\ Len(wire.smap["$ard.map"].list) = 2

\* s is no decimal number: empty, a bare sign, or a character that is
\* neither a digit nor a leading sign.
NonNumeric(s) ==
    \/ s \in {"", "+", "-"}
    \/ \E i \in 1..Len(s) : ~IsDigit(Char(s, i)) /\ ~(i = 1 /\ Char(s, i) \in {"+", "-"})
\* s is no Base64 text: not a whole number of groups of four, or a character
\* outside the alphabet and the padding.
InvalidBase64(s) ==
    \/ Len(s) % 4 # 0
    \/ \E i \in 1..Len(s) : ~IsBase64Char(Char(s, i)) /\ Char(s, i) # "="
\* e is no entry of a "$ard.map" list: not a StringMap with "key" and "value".
MalformedEntry(e) == ~(e.t = "smap" /\ {"key", "value"} \subseteq DOMAIN e.smap)
\* p is a malformed payload for the code.
MalformedPayload(code, p) ==
    CASE code \in {XJSONIntegerCode, XJSONUIntegerCode} -> p.t # "string" \/ NonNumeric(p.s)
      [] code = XJSONBytesCode -> p.t # "string" \/ InvalidBase64(p.s)
      [] code = XJSONMapCode ->
            p.t # "list" \/ \E i \in 1..Len(p.list) : MalformedEntry(p.list[i])
      [] OTHER -> FALSE
\* The one-key StringMaps and Maps whose key is a code with a malformed payload.
MalformedWrapper(w) ==
    /\ w.t \in {"smap", "map"}
    /\ Cardinality(Keys(w)) = 1
    /\ \E k \in Keys(AsMap(w)) : IsStringKey(k) /\ MalformedPayload(k.s, AsMap(w).map[k])

\* C3, its second half: a one-key map whose key is a code and whose payload
\* is malformed unpacks as an ordinary one-key map that still has that key,
\* unless the call panics.
C3_MalformedDegrades ==
    (phase = "unpacked" /\ MalformedWrapper(wire) /\ unpacked # Panic) =>
        /\ unpacked.t = IF useStringMaps THEN "smap" ELSE "map"
        /\ Keys(AsMap(unpacked)) = Keys(AsMap(wire))

\* C3: UnpackXJSON never panics (it has no error result), and a one-key map
\* whose key is a code and whose payload is malformed unpacks as an ordinary
\* one-key map that still has that key.
C3_UnpackLenient ==
    /\ phase = "unpacked" => unpacked # Panic
    /\ C3_MalformedDegrades

(***************************************************************************)
(* Claims about Node                                                       *)
(***************************************************************************)
NodeRunning == phase \in {"node", "write"}
\* The node With returned.
NodeRoot == NoNode + 1
ReturnsNode == {"NilMeansZero", "ConvertSimilar", "Get", "ForceGet", "GetPath", "ForceGetPath"}
ReturnsBool == {"Set", "Append", "Delete"}
\* The latest call changed no map, no list and no node.
NothingChanged == heap = heapBefore /\ nodes = nodesBefore
\* The key is absent from the map of a node (or the node holds no map).
Missing(self, key) == ~getFromMap(heap, nodes[self].Value, key).ok
\* Get(a).Get(b).Get(c).String() on the root.
Chain(a_, b_, c_) ==
    LET first_ == Get(heap, nodes, NodeRoot, <<a_>>)
        second == Get(first_.h, first_.nodes, first_.at, <<b_>>)
        third == Get(second.h, second.nodes, second.at, <<c_>>)
    IN NodeString(third.nodes, third.at)

\* C13: NoNode is terminal.  A call on NoNode returns NoNode (NilMeansZero,
\* ConvertSimilar, Get, ForceGet, GetPath, ForceGetPath), false (Set,
\* Append, Delete) or not found (every typed extractor), and changes
\* neither the fields of NoNode nor any node, map or list; the chain
\* Get(a).Get(b).Get(c).String() on a tree missing a is ("", false).
C13_NoNodeTerminal ==
    NodeRunning =>
        /\ nodes[NoNode] = NoNodeOnly[NoNode]
        /\ call.self = NoNode =>
              /\ call.op \in ReturnsNode => call.at = NoNode
              /\ call.op \in ReturnsBool => ~call.ok
              /\ call.op = "Extract" => \A extractor \in Extractors : ~call.results[extractor].ok
              /\ NothingChanged
        /\ \A a_ \in NodeKeys :
              Missing(NodeRoot, a_) => Chain(a_, Str("first"), GoInt(1)) = NotFound(Str(""))
\* Every kind of call has been made on NoNode after calls that returned
\* nodes and changed the tree; here, Delete after a Set that succeeded.
C13_Witness ==
    /\ phase = "node"
    /\ call.self = NoNode
    /\ call.op = "Delete"
    /\ \E self \in held : self # NoNode /\ nodes[self].Value = Stored /\ self # NodeRoot
    /\ Missing(NodeRoot, Str("missing"))

\* The value reached from value_ by looking up the keys one after the
\* other: ok when every value looked into is a map that has the key.
RECURSIVE Reached(_, _, _)
Reached(h, value_, keys) ==
    IF keys = <<>> THEN [ok |-> TRUE, value |-> value_]
    ELSE IF ~IsAnyMap(value_) THEN [ok |-> FALSE, value |-> Nil]
    ELSE LET entries == EntriesAt(h, value_)
             wanted == IF value_.t = "smap" THEN MapKeyToString(Head(keys)) ELSE Head(keys)
         IN IF wanted \in DOMAIN entries THEN Reached(h, entries[wanted], Tail(keys))
            ELSE [ok |-> FALSE, value |-> Nil]

\* C14: Node.Get descent.  For one or more keys, Get on a node holding v
\* returns a node holding the value reached by looking the keys up one
\* after the other (a StringMap by the string of the key) when every value
\* looked into is a Map or StringMap that has the key, and NoNode
\* otherwise; String() on the result is (s, true) for a string s reached
\* and ("", false) on NoNode, so that on {first: {property1: "Hello"}}
\* Get(first, property1).String() is ("Hello", true) and
\* Get(first, missing).String() is ("", false).
C14_GetDescent ==
    (NodeRunning /\ call.op \in {"Get", "GetPath"} /\ call.self # NoNode) =>
        LET reached == Reached(heapBefore, nodesBefore[call.self].Value, call.keys)
        IN IF Len(call.keys) >= 1 /\ reached.ok
           THEN /\ call.at # NoNode
                /\ nodes[call.at].Value = reached.value
                /\ reached.value.t = "string" =>
                      NodeString(nodes, call.at) = Found(reached.value)
           ELSE /\ call.at = NoNode
                /\ NodeString(nodes, call.at) = NotFound(Str(""))
\* Get(first, property1) has reached "Hello" through two StringMaps.
C14_Witness ==
    /\ phase = "node"
    /\ call.op = "Get"
    /\ call.self = NodeRoot
    /\ call.keys = <<Str("first"), Str("property1")>>
    /\ nodesBefore[NodeRoot].Value.t = "smap"
    /\ call.at # NoNode
    /\ NodeString(nodes, call.at) = Found(Hello)

\* No key before the last leads to a value that is there and is no map.
NoScalarOnTheWay(h, value_, keys) ==
    \A i \in 1..(Len(keys) - 1) :
        LET reached == Reached(h, value_, SubSeq(keys, 1, i))
        IN reached.ok => IsAnyMap(reached.value)
\* The latest call is a ForceGet that the claim is about.
Forced ==
    /\ NodeRunning
    /\ call.op \in {"ForceGet", "ForceGetPath"}
    /\ call.self # NoNode
    /\ IsAnyMap(nodesBefore[call.self].Value)
    /\ Len(call.keys) >= 1
    /\ NoScalarOnTheWay(heapBefore, nodesBefore[call.self].Value, call.keys)
\* What ForceGet returns and leaves in the tree.
ForcedNode ==
    LET v == nodesBefore[call.self].Value
        before == Reached(heapBefore, v, call.keys)
        after == Reached(heap, v, call.keys)
    IN /\ call.at # NoNode
       /\ \A i \in 1..(Len(call.keys) - 1) :
             LET into == Reached(heap, v, SubSeq(call.keys, 1, i - 1))
                 child == Reached(heap, v, SubSeq(call.keys, 1, i))
             IN /\ child.ok /\ IsAnyMap(child.value)
                /\ child.value.at > Len(heapBefore) =>
                      /\ child.value.t = into.value.t
                      /\ Cardinality(DOMAIN EntriesAt(heap, child.value)) =
                            IF i < Len(call.keys) - 1 THEN 1 ELSE 0
       /\ IF before.ok THEN nodes[call.at].Value = before.value
          ELSE nodes[call.at].Value = Nil /\ ~after.ok
\* Set(x) on the node ForceGet has just returned, when it returns true,
\* makes Get with the keys of the ForceGet return a node holding x.
SetAfterForceGet ==
    (Forced /\ call'.op = "Set" /\ call'.self = call.at /\ call'.ok) =>
        LET found == Get(heap', nodes', call.self, call.keys)
        IN found.at # NoNode /\ found.nodes[found.at].Value = call'.x

\* C15: ForceGet followed by Set populates the path.  On a node holding a
\* Map or StringMap, with one key or more and no key before the last
\* leading to an existing value that is no map, ForceGet returns a node
\* other than NoNode; every map it created is of the variant of the map
\* it was put into and holds the next map created and nothing else; when
\* the last key was absent the node holds
\* null and the key is still absent; and once Set(x) on that node has
\* returned true, Get with the same keys returns a node holding x.
C15_ForceGetThenSet == [](Forced => ForcedNode) /\ [][SetAfterForceGet]_vars
\* Set has stored Stored under first, missing of a StringMap that was
\* empty: ForceGet has created the StringMap under first.
C15_Witness ==
    /\ phase = "node"
    /\ call.op = "Set" /\ call.ok /\ call.x = Stored
    /\ nodes[NodeRoot].Value.t = "smap"
    /\ Len(heap) = 2
    /\ Reached(heap, nodes[NodeRoot].Value, <<Str("first")>>).value = StringMapAt(2)
    /\ DOMAIN EntriesAt(heap, StringMapAt(2)) = {"missing"}
    /\ Reached(heap, nodes[NodeRoot].Value, <<Str("first"), Str("missing")>>).value = Stored

\* The container of a node, before the latest call, held a map.
HadMapContainer(self) ==
    /\ nodesBefore[self].container # NilPointer
    /\ IsAnyMap(nodesBefore[nodesBefore[self].container].Value)
\* The key a node has in the map of its container, before the latest call.
SlotOf(self) ==
    LET map_ == nodesBefore[nodesBefore[self].container].Value
    IN IF map_.t = "smap" THEN MapKeyToString(nodesBefore[self].key)
       ELSE nodesBefore[self].key

\* C16: Node.Set success and failure.  On a node whose container node holds
\* a Map or StringMap, Set(x) returns true, stores x under the key of the
\* node in that map (under the string of the key in a StringMap), leaves
\* every other entry and map as it was, and makes x the Value of the node;
\* on a root node and on a node whose container holds no map, Set(x)
\* returns false and changes neither the node nor any map.
C16_SetSuccessAndFailure ==
    (NodeRunning /\ call.op = "Set" /\ call.self # NoNode) =>
        IF HadMapContainer(call.self)
        THEN LET map_ == nodesBefore[nodesBefore[call.self].container].Value
             IN /\ call.ok
                /\ SlotOf(call.self) \in DOMAIN EntriesAt(heap, map_)
                /\ EntriesAt(heap, map_)[SlotOf(call.self)] = call.x
                /\ \A key \in DOMAIN EntriesAt(heap, map_) \ {SlotOf(call.self)} :
                      /\ key \in DOMAIN EntriesAt(heapBefore, map_)
                      /\ EntriesAt(heap, map_)[key] = EntriesAt(heapBefore, map_)[key]
                /\ DOMAIN EntriesAt(heapBefore, map_) \subseteq DOMAIN EntriesAt(heap, map_)
                /\ \A addr \in (1..Len(heap)) \ {map_.at} : heap[addr] = heapBefore[addr]
                /\ Len(heap) = Len(heapBefore)
                /\ nodes[call.self].Value = call.x
                /\ nodes = [nodesBefore EXCEPT ![call.self].Value = call.x]
        ELSE ~call.ok /\ NothingChanged
\* Set has failed on a node whose container node, detached or overwritten
\* since the node was taken, holds no map any more.
C16_Witness ==
    /\ phase = "write"
    /\ call.op = "Set"
    /\ call.self # NoNode
    /\ nodesBefore[call.self].container # NilPointer
    /\ ~IsAnyMap(nodesBefore[nodesBefore[call.self].container].Value)
    /\ ~call.ok

\* Delete has detached the node (no other call sets the key to nil).
Detached(self) ==
    nodesBefore[self].container = NilPointer /\ nodesBefore[self].key = Nil

\* C17: Node.Delete detaches the node.  On a node whose container node
\* holds a Map or StringMap, Delete() returns true and removes the key of
\* the node from that map and nothing else, so that Get of that key on the
\* container returns NoNode; the node then has a null Value and no
\* container, and every later Set, Append or Delete on it returns false and
\* changes nothing.  On a root node Delete() returns false and changes
\* nothing.
C17_DeleteDetaches ==
    /\ (NodeRunning /\ call.op = "Delete" /\ call.self # NoNode) =>
          IF HadMapContainer(call.self)
          THEN LET container_ == nodesBefore[call.self].container
                   map_ == nodesBefore[container_].Value
                   following == Get(heap, nodes, container_, <<nodesBefore[call.self].key>>)
               IN /\ call.ok
                  /\ DOMAIN EntriesAt(heap, map_) =
                        DOMAIN EntriesAt(heapBefore, map_) \ {SlotOf(call.self)}
                  /\ \A key \in DOMAIN EntriesAt(heap, map_) :
                        EntriesAt(heap, map_)[key] = EntriesAt(heapBefore, map_)[key]
                  /\ \A addr \in (1..Len(heap)) \ {map_.at} : heap[addr] = heapBefore[addr]
                  /\ Len(heap) = Len(heapBefore)
                  /\ following.at = NoNode
                  /\ nodes[call.self].Value = Nil
                  /\ nodes[call.self].container = NilPointer
                  /\ \A other \in (1..Len(nodes)) \ {call.self} : nodes[other] = nodesBefore[other]
          ELSE ~call.ok /\ NothingChanged
    /\ (NodeRunning /\ call.op \in ReturnsBool /\ call.self # NoNode /\ Detached(call.self)) =>
          ~call.ok /\ NothingChanged
\* Set on a node that Delete had detached has returned false.
C17_Witness ==
    /\ phase = "write"
    /\ call.op = "Set"
    /\ call.self # NoNode
    /\ Detached(call.self)
    /\ ~call.ok
    /\ nodes[call.self].Value = Nil

\* Every typed extractor returns the zero value of its type and true.
ReadsZero(self) ==
    \A extractor \in Extractors : Extract(heap, nodes, self)[extractor] = Found(Zero(extractor))
\* Every typed extractor returns false.
ReadsNothing(self) ==
    \A extractor \in Extractors : ~Extract(heap, nodes, self)[extractor].ok
\* The latest call is a traversal from a node other than NoNode whose last
\* key is absent from the map the keys before it lead to.
KeyAbsent ==
    /\ NodeRunning
    /\ call.op \in {"Get", "GetPath", "ForceGet", "ForceGetPath"}
    /\ call.self # NoNode
    /\ Len(call.keys) >= 1
    /\ LET into == Reached(heapBefore, nodesBefore[call.self].Value,
                           SubSeq(call.keys, 1, Len(call.keys) - 1))
       IN /\ into.ok
          /\ IsAnyMap(into.value)
          /\ ~Reached(heapBefore, into.value, <<call.keys[Len(call.keys)]>>).ok
\* The latest call has returned a node holding null.
NullReached ==
    /\ NodeRunning
    /\ call.op \in ReturnsNode
    /\ call.at # NoNode
    /\ nodes[call.at].Value = Nil

\* C18 as the specification states it: with the nil-means-zero flag set on
\* the node the read goes through, every typed extractor returns the zero
\* value of its type and true both when the value addressed is null and
\* when the key addressed is absent; without the flag both return false.
C18_NilMeansZeroReads ==
    /\ NullReached =>
          IF nodes[call.at].nilMeansZero THEN ReadsZero(call.at) ELSE ReadsNothing(call.at)
    /\ KeyAbsent =>
          IF nodesBefore[call.self].nilMeansZero THEN ReadsZero(call.at)
          ELSE ReadsNothing(call.at)

\* C18, amended: on a node holding null - the node of an entry whose value
\* is null, a root wrapping null, or the node ForceGet returns for an
\* absent last key - every typed extractor returns the zero value of its
\* type and true when the nil-means-zero flag is set (NilMeansZero sets it,
\* the nodes reached from a node inherit it), and false without the flag;
\* the recorded results of the extractors are those; when the key addressed
\* is absent and the node is asked for with Get, the result is NoNode and
\* every extractor returns false whatever the flag.  The convert-similar
\* flag makes no difference.
C18_NullReads ==
    /\ NullReached =>
          IF nodes[call.at].nilMeansZero THEN ReadsZero(call.at) ELSE ReadsNothing(call.at)
    /\ (NullReached /\ call.op = "NilMeansZero") => ReadsZero(call.at)
    /\ (NullReached /\ call.op \in {"Get", "GetPath", "ForceGet", "ForceGetPath"}) =>
          nodes[call.at].nilMeansZero = nodesBefore[call.self].nilMeansZero
    /\ (KeyAbsent /\ call.op \in {"ForceGet", "ForceGetPath"}) => NullReached
    /\ (KeyAbsent /\ call.op \in {"Get", "GetPath"}) =>
          call.at = NoNode /\ ReadsNothing(call.at)
    /\ (NodeRunning /\ call.op = "Extract" /\ call.self # NoNode
            /\ nodes[call.self].Value = Nil) =>
          \A extractor \in Extractors :
              IF nodes[call.self].nilMeansZero
              THEN call.results[extractor] = Found(Zero(extractor))
              ELSE ~call.results[extractor].ok
\* Get has reached an entry holding null from a node with both flags set:
\* every extractor reads the zero value.
C18_Witness ==
    /\ phase = "node"
    /\ call.op = "Get"
    /\ NullReached
    /\ nodes[call.at].nilMeansZero
    /\ nodes[call.at].convertSimilar
    /\ nodes[call.at].container # NilPointer
    /\ ReadsZero(call.at)

(***************************************************************************)
(* Claims about reading                                                    *)
(***************************************************************************)
ReadDone == phase = "read-done"

C20_OnlyMaps ==
    /\ ReadDone
    /\ readEntry \in {"Read", "Decode"}
    /\ readFormat \in {"json", "xjson", "messagepack"}
    /\ readResult.err = "nil"
    => ~HasVariant(readResult.value, "smap")
\* Decode has returned a Map under a list under a Map, for StringMaps read.
C20_Witness ==
    /\ ReadDone
    /\ readEntry = "Decode"
    /\ readFormat = "messagepack"
    /\ readTree = StringMap(Single("a", List(<<StringMap(Single("b", GoInt(1)))>>)))
    /\ readResult.value = Map(Single(Str("a"), List(<<Map(Single(Str("b"), GoInt(1)))>>)))

(***************************************************************************)
(* Claims about the map variant UnpackXJSON returns                        *)
(***************************************************************************)
\* C21: ReadXJSON, DecodeXJSON and UnpackXJSON with useStringMaps=true
\* return a value in which every map, at every depth, is a StringMap, the
\* maps recovered from a "$$"-escaped one-key wrapper and from a "$ard.map"
\* wrapper included.
C21_StringMapsOnly ==
    (phase = "unpacked" /\ useStringMaps /\ unpacked # Panic) =>
        ~HasVariant(unpacked, "map")

\* The tree x holds, at some depth, a one-key object whose key begins with
\* "$$" or is "$ard.map".
RECURSIVE HoldsEscapeOrMapCode(_)
HoldsEscapeOrMapCode(x) ==
    CASE x.t = "list" -> \E i \in 1..Len(x.list) : HoldsEscapeOrMapCode(x.list[i])
      [] x.t \in {"map", "smap"} ->
            \/ /\ Cardinality(Keys(AsMap(x))) = 1
               /\ \E k \in Keys(AsMap(x)) :
                     k.t = "string" /\ (HasPrefix(k.s, "$$") \/ k.s = XJSONMapCode)
            \/ \E k \in Keys(AsMap(x)) : HoldsEscapeOrMapCode(AsMap(x).map[k])
      [] OTHER -> FALSE
\* With useStringMaps=true a Map is returned only for what holds such an
\* object: the ordinary maps come back as StringMaps.
C21_OrdinaryMaps ==
    (phase = "unpacked" /\ useStringMaps /\ unpacked # Panic /\ HasVariant(unpacked, "map")) =>
        HoldsEscapeOrMapCode(wire)

(***************************************************************************)
(* Claims about the reflector                                              *)
(***************************************************************************)
\* Pack has returned from packing a value handed to it as it is.
PackedAlone == phase = "packed-into" /\ instance = None
\* The scalar the call packs and the value it is packed into: the value and
\* the target themselves, or the entry of a one-entry map and the field of
\* the struct its key names.
ScalarPacked ==
    IF ardValue.t \in {"map", "smap"}
    THEN LET k == CHOOSE key \in KeyValues(ardValue) : TRUE
         IN IF ardValue.t = "map" THEN ardValue.map[k] ELSE ardValue.smap[k.s]
    ELSE ardValue
\* The name of the field the key names, "" when it names none.
FieldPacked ==
    LET k == CHOOSE key \in KeyValues(ardValue) : TRUE
        table == FieldTable(reflector, "Scalars")
    IN IF k.s \in DOMAIN table THEN table[k.s].name ELSE ""
PackedIntoField == ardValue.t \in {"map", "smap"}
TargetBefore == IF PackedIntoField THEN packTarget.fields[FieldPacked] ELSE packTarget
TargetAfter == IF PackedIntoField THEN packResult.v.fields[FieldPacked] ELSE packResult.v
\* A string, a boolean, an integer or a float is packed into a target of
\* scalar type.
ScalarCase ==
    /\ PackedAlone
    /\ ScalarPacked.t \in {"string", "bool", "float64"} \cup SignedTypes \cup UnsignedTypes
    /\ PackedIntoField => FieldPacked # ""
\* The category of the value matches the kind of the target.
CategoryMatches(value_, kind) ==
    \/ value_.t = "string" /\ kind = "string"
    \/ value_.t = "bool" /\ kind = "bool"
    \/ value_.t \in SignedTypes \cup UnsignedTypes /\ kind \in {"int", "uint", "float"}
    \/ value_.t = "float64" /\ kind = "float"

\* C22: Pack accepts a scalar only when its category matches the kind of
\* the target (a string into a string, a boolean into a bool, an integer of
\* any width and sign into an integer, unsigned or float target, a float
\* into a float target); for every other pairing it returns an error and
\* the target is as it was.
C22_ScalarCategories ==
    ScalarCase =>
        IF CategoryMatches(ScalarPacked, Kind(TypeOf(TargetBefore)))
        THEN packResult.err = ""
        ELSE packResult.err # "" /\ TargetAfter = TargetBefore

\* What Pack does with scalars: strings go into strings and booleans into
\* bools only; every number, a float included, goes into every integer,
\* unsigned and float target; whenever an error is returned the target is
\* as it was.
C22_NumbersIntoNumbers ==
    (ScalarCase /\ packResult.by = "Pack") =>
        LET kind == Kind(TypeOf(TargetBefore))
        IN /\ packResult.err = "" <=>
                 \/ CategoryMatches(ScalarPacked, kind)
                 \/ ScalarPacked.t = "float64" /\ kind \in {"int", "uint"}
           /\ packResult.err # "" => packResult.v = packTarget

\* Two Go values are equal: scalars by ==, structs field by field, slices
\* and maps by their content (a nil slice or map has the content of an empty
\* one).
RECURSIVE EqualValues(_, _)
EqualValues(x, y) ==
    /\ x.t = y.t
    /\ CASE x.t = "struct" ->
               /\ x.type = y.type
               /\ \A name_ \in DOMAIN x.fields : EqualValues(x.fields[name_], y.fields[name_])
         [] x.t = "slice" ->
               /\ Len(x.elems) = Len(y.elems)
               /\ \A i \in 1..Len(x.elems) : EqualValues(x.elems[i], y.elems[i])
         [] x.t = "hmap" ->
               /\ DOMAIN x.hm = DOMAIN y.hm
               /\ \A k \in DOMAIN x.hm : EqualValues(x.hm[k], y.hm[k])
         [] OTHER -> x = y

\* The instance has been unpacked and the value packed into a zero instance.
PackedBack == phase = "packed-into" /\ instance # None
\* The fields of the instance tagged omitempty are absent from the unpacked
\* map exactly when their unpacked value is empty, and are then zero in the
\* instance packed.
OmitEmptyFields ==
    LET table == FieldTable(reflector, TypeOf(instance))
    IN \A name_ \in DOMAIN table :
          LET field == instance.fields[table[name_].name]
              present == Str(name_) \in KeyValues(ardValue)
          IN IF table[name_].omitEmpty
             THEN /\ present <=> ~IsEmpty(unpack(reflector, field, stringMaps).v)
                  /\ ~present =>
                        packResult.v.fields[table[name_].name] = ZeroOf(TypeOf(field))
             ELSE present

RECURSIVE HasNonStringKeys(_)
HasNonStringKeys(x) ==
    CASE x.t = "struct" -> \E name_ \in DOMAIN x.fields : HasNonStringKeys(x.fields[name_])
      [] x.t = "slice" -> \E i \in 1..Len(x.elems) : HasNonStringKeys(x.elems[i])
      [] x.t = "hmap" ->
            \/ DOMAIN x.hm # {} /\ TypeKey(x.type) # "string"
            \/ \E k \in DOMAIN x.hm : HasNonStringKeys(x.hm[k])
      [] OTHER -> FALSE
\* The fields of a struct type that its field table names: those not tagged
\* "-".
MappedFields(type_) ==
    LET table == FieldTable(reflector, type_)
    IN {table[name_].name : name_ \in DOMAIN table}
\* x has the fields of y, but for the fields tagged "-", which are zero.
RECURSIVE EqualMapped(_, _)
EqualMapped(x, y) ==
    /\ x.t = y.t
    /\ CASE x.t = "struct" ->
               /\ x.type = y.type
               /\ \A name_ \in DOMAIN x.fields :
                     IF name_ \in MappedFields(x.type)
                     THEN EqualMapped(x.fields[name_], y.fields[name_])
                     ELSE x.fields[name_] = ZeroOf(TypeOf(y.fields[name_]))
         [] x.t = "slice" ->
               /\ Len(x.elems) = Len(y.elems)
               /\ \A i \in 1..Len(x.elems) : EqualMapped(x.elems[i], y.elems[i])
         [] x.t = "hmap" ->
               /\ DOMAIN x.hm = DOMAIN y.hm
               /\ \A k \in DOMAIN x.hm : EqualMapped(x.hm[k], y.hm[k])
         [] OTHER -> x = y

SingleThreaded(type_) == FieldTable(sharedReflector, type_)

\* C24: under every interleaving of the calls of newReflectFields on one
\* Reflector, for the same type and for different types, every call that has
\* returned has returned the complete table of its type, whether it loaded
\* the table or built it, and the cache maps every type it holds to the
\* table a single-threaded resolution produces: no partial table is ever in
\* the cache for a call to load.
C24_CacheSafe ==
    phase = "cache" =>
        /\ \A type_ \in DOMAIN sharedReflector.reflectFieldsCache :
              sharedReflector.reflectFieldsCache[type_] = SingleThreaded(type_)
        /\ \A p \in Procs :
              cacheCalls[p] > 0 =>
                  cacheReturned[p].reflectFields = SingleThreaded(cacheReturned[p].type)

\* Two goroutines are building the table of the same type, one of them half
\* way, while a third has returned the table of another type, and the cache
\* holds it.
C24_Witness ==
    /\ phase = "cache"
    /\ \E p, q, r \in Procs :
          /\ p # q
          /\ cachePc[p] = "build" /\ cachePc[q] = "build"
          /\ cacheType[p] = cacheType[q]
          /\ cacheIndex[p] = 2 /\ Len(GetStructFields(cacheType[p])) = 2
          /\ cacheCalls[r] > 0
          /\ cacheReturned[r].type # cacheType[p]
          /\ cacheReturned[r].type \in DOMAIN sharedReflector.reflectFieldsCache

(***************************************************************************)
(* Claims about Locate                                                     *)
(***************************************************************************)
\* The pairs of a mapping: the positions in Content of their keys.
Pairs(doc, node) == {i \in 1..Len(doc[node].Content) : i % 2 = 1 /\ i + 1 <= Len(doc[node].Content)}
DirectEntries(doc, node, name_) ==
    {i \in Pairs(doc, node) : LET keyNode == doc[node].Content[i]
                              IN /\ doc[keyNode].Kind = "ScalarNode"
                                 /\ doc[keyNode].Tag = "!!str"
                                 /\ doc[keyNode].Value = name_}
MergeKeyEntries(doc, node) ==
    {i \in Pairs(doc, node) : doc[doc[node].Content[i]].Tag = "!!merge"}
Least(S) == CHOOSE i \in S : \A j \in S : i <= j

RECURSIVE Addressed(_, _, _)
\* The node a path identifies, NilNode when it identifies none: a map or
\* field step takes the mapping's own entry when there is one and an entry
\* of a merged mapping otherwise, a list step the element at its index.  An
\* entry is identified by its key node.
Addressed(doc, node, path_) ==
    IF Len(path_) = 0 THEN node
    ELSE CASE doc[node].Kind = "AliasNode" -> Addressed(doc, doc[node].Alias, path_)
           [] doc[node].Kind = "DocumentNode" -> Addressed(doc, doc[node].Content[1], path_)
           [] doc[node].Kind = "MappingNode" /\ path_[1].Type \in {FieldPathType, MapPathType} ->
                 LET direct == DirectEntries(doc, node, path_[1].Value)
                     viaMerge == {i \in MergeKeyEntries(doc, node) :
                                   Addressed(doc, doc[node].Content[i + 1], <<path_[1]>>) # NilNode}
                 IN IF direct # {}
                    THEN IF Len(path_) = 1 THEN doc[node].Content[Least(direct)]
                         ELSE Addressed(doc, doc[node].Content[Least(direct) + 1], Tail(path_))
                    ELSE IF viaMerge # {}
                    THEN Addressed(doc, doc[node].Content[Least(viaMerge) + 1], path_)
                    ELSE NilNode
           [] doc[node].Kind = "SequenceNode" /\ path_[1].Type = ListPathType ->
                 IF path_[1].Index < Len(doc[node].Content)
                 THEN Addressed(doc, doc[node].Content[path_[1].Index + 1], Tail(path_))
                 ELSE NilNode
           [] doc[node].Kind = "SequenceNode" /\ path_[1].Type = SequencedListPathType ->
                 IF path_[1].Index < Len(doc[node].Content)
                 THEN LET content_ == doc[node].Content[path_[1].Index + 1]
                      IN IF /\ doc[content_].Kind = "MappingNode"
                            /\ Len(doc[content_].Content) = 2
                         THEN Addressed(doc, doc[content_].Content[2], Tail(path_))
                         ELSE IF Len(path_) = 1 THEN content_ ELSE NilNode
                 ELSE NilNode
           [] OTHER -> NilNode

Located == phase = "located"
PathAddressed == Addressed(yamlNodes, 1, locatePath)
\* The path does not enter a mapping that has a merge key.
MergeFree ==
    \/ Len(locatePath) = 0
    \/ locatePath[1].Type \in {ListPathType, SequencedListPathType}
    \/ locatePath[1].Value \notin {"first", "last", "only"}

\* C25: Locate returns the line and the column of the addressed node and
\* true when the path identifies a node of the document, and (-1, -1, false)
\* when it does not: a key the mapping does not have, an index beyond the
\* length of the sequence, a step that does not fit the node reached.
\* (Stated for the paths that enter no mapping with a merge key.)
C25_LocateReportsMisses ==
    (Located /\ MergeFree) =>
        locateResult = IF PathAddressed # NilNode
                       THEN Position(yamlNodes, PathAddressed)
                       ELSE NotLocated

\* What Locate does: it always reports a node as found, the addressed one
\* when the path identifies a node.
C25_AlwaysFound ==
    (Located /\ MergeFree) =>
        /\ locateResult[3] = TRUE
        /\ PathAddressed # NilNode => locateResult = Position(yamlNodes, PathAddressed)

\* The path is a step into one of the mappings named, then a map or field
\* step.
InMapping(names) ==
    /\ Len(locatePath) = 2
    /\ locatePath[1].Type \in {FieldPathType, MapPathType}
    /\ locatePath[1].Value \in names
    /\ locatePath[2].Type \in {FieldPathType, MapPathType}

\* The mapping the first step of the path enters.
Entered ==
    yamlNodes[2].Content[Least(DirectEntries(yamlNodes, 2, locatePath[1].Value)) + 1]

\* C26: in a mapping that holds a merge key, a map or field step for a key
\* resolves to the mapping's own entry for it when there is one, wherever the
\* merge entry stands, and to the entry of the merged mapping only when there
\* is none.
C26_DirectEntryWins ==
    (Located /\ InMapping({"first", "last", "only"}) /\ PathAddressed # NilNode) =>
        locateResult = Position(yamlNodes, PathAddressed)

\* What holds: the mapping's own entry is found when the merge key stands
\* after it, and a key that only the merged mapping has is found there.
C26_MergeAfterDirect ==
    (/\ Located
     /\ InMapping({"first", "last", "only"})
     /\ PathAddressed # NilNode
     /\ \/ locatePath[1].Value = "last"
        \/ DirectEntries(yamlNodes, Entered, locatePath[2].Value) = {}) =>
        locateResult = Position(yamlNodes, PathAddressed)

(***************************************************************************)
(* Claims about ConvertStringMapsToMaps and ConvertMapsToStringMaps         *)
(***************************************************************************)
HasConverted == phase = "converted"
\* The variant the conversion called replaces, and the one it makes.
OtherVariant == IF convertMode = convertStringMapsToMaps THEN "smap" ELSE "map"
WantedVariant == IF convertMode = convertStringMapsToMaps THEN "map" ELSE "smap"
\* The input is a List or a map of the wanted variant that holds a map of
\* the other variant at some depth.
HoldsOtherVariant ==
    /\ convertTree.t \in {"list", WantedVariant}
    /\ HasVariant(convertTree, OtherVariant)

\* C27: the conversions convert in place.  When the input is a List or a map
\* of the wanted variant holding maps of the other variant, after the call
\* the input container itself holds no map of the other variant; a new map
\* is returned only when the input itself is a map of the other variant;
\* the flag is true exactly when a map was converted, and when it is false
\* the value returned is the input itself.
C27_InPlace ==
    HasConverted =>
        /\ HoldsOtherVariant => ~HasVariant(Deref(heap, convertInput), OtherVariant)
        /\ convertResult.changed = HasVariant(convertTree, OtherVariant)
        /\ ~convertResult.changed => convertResult.v = convertInput

\* What the conversions do: the input is left as it was built, and whatever
\* holds a converted map is returned as a new container; the flag and the
\* unchanged case are as the claim has them.
C27_NewContainers ==
    HasConverted =>
        /\ Deref(heap, convertInput) = convertTree
        /\ ~HasVariant(Deref(heap, convertResult.v), OtherVariant)
        /\ convertResult.changed = HasVariant(convertTree, OtherVariant)
        /\ convertResult.changed =>
              /\ convertResult.v.t \in {"list", "map", "smap"}
              /\ convertResult.v.at > Len(heapBefore)
        /\ ~convertResult.changed => convertResult.v = convertInput

(***************************************************************************)
(* Claims about the escaping of one-key maps                               *)
(***************************************************************************)
OneKey(x) == x.t \in {"map", "smap"} /\ Cardinality(Keys(x)) = 1
\* The string keys of a map, as strings.
StringKeysOf(x) ==
    IF x.t = "smap" THEN Keys(x) ELSE {k.s : k \in {j \in Keys(x) : IsString(j)}}
\* The value a one-key map holds.
OnlyEntry(x) == Entries(x)[CHOOSE k \in Keys(x) : TRUE]
\* A Map or StringMap of one entry whose key is a string went through
\* PackXJSON, the wire and UnpackXJSON.
OneStringKeyDone ==
    /\ phase = "unpacked"
    /\ value # None
    /\ OneKey(value)
    /\ StringKeysOf(value) # {}
\* The result is a one-entry map with the key of the value and the entry
\* as it comes through the round trip.
SameKeyBack ==
    /\ OneKey(unpacked)
    /\ StringKeysOf(unpacked) = StringKeysOf(value)
    /\ OnlyEntry(unpacked) = UnpackXJSON(WireOf(OnlyEntry(value)), useStringMaps).v

\* C28: escaping is reversible for every single-key map: for every Map or
\* StringMap of one entry whose key is a string (one of the four codes, a
\* string that begins with "$$", any other string) unpacking the packed form
\* yields a one-entry map with the same key and the round-tripped value.
C28_EscapingReversible == OneStringKeyDone => SameKeyBack

\* What holds: the same for every key that does not begin with "$$".
C28_ReversibleUnlessDoubled ==
    (OneStringKeyDone /\ \A k \in StringKeysOf(value) : ~HasPrefix(k, "$$")) => SameKeyBack

(***************************************************************************)
(* Claims about Append through several nodes                               *)
(***************************************************************************)
\* The latest call is an Append that returned true, through a node whose
\* key held a List in the map of its container when the call was made.
AppendedToStored ==
    /\ phase = "write"
    /\ call.op = "Append"
    /\ call.ok
    /\ LET map_ == nodesBefore[nodesBefore[call.self].container].Value
           before == getFromMap(heapBefore, map_, nodesBefore[call.self].key)
       IN before.ok /\ before.value.t = "list"
\* What the map of the container held under the key of the node of the
\* latest call, before the call and after it.
StoredBefore ==
    getFromMap(heapBefore, nodesBefore[nodesBefore[call.self].container].Value,
               nodesBefore[call.self].key).value
StoredAfter ==
    getFromMap(heap, nodesBefore[nodesBefore[call.self].container].Value,
               nodesBefore[call.self].key).value

\* C29: appends through nodes accumulate.  Whatever nodes obtained by Get
\* for a key the caller appends through, every Append that returns true
\* leaves under the key the list that was there followed by the appended
\* value: no Append is lost or overwritten by a later one.
C29_AppendsAccumulate ==
    AppendedToStored =>
        Deref(heap, StoredAfter) = List(Deref(heapBefore, StoredBefore).list \o <<call.x>>)

\* What holds: an Append leaves under the key the list the node held,
\* followed by the appended value; that is the stored list when the node
\* holds the list the map holds.
C29_AppendsToOwnList ==
    AppendedToStored =>
        /\ Deref(heap, StoredAfter) =
              List(Deref(heapBefore, nodesBefore[call.self].Value).list \o <<call.x>>)
        /\ nodesBefore[call.self].Value = StoredBefore =>
              Deref(heap, StoredAfter) = List(Deref(heapBefore, StoredBefore).list \o <<call.x>>)

(***************************************************************************)
(* Claims about traversal without a result                                 *)
(***************************************************************************)
\* The latest call is a ForceGet or ForceGetPath that returned NoNode.
ForceGetFailed ==
    /\ phase = "node"
    /\ call.op \in {"ForceGet", "ForceGetPath"}
    /\ call.at = NoNode

\* C30: traversal without a usable result has no side effect.  Get, whatever
\* it returns, and ForceGet whenever it returns NoNode (root value not a
\* map, no keys given, an intermediate key occupied by a value that is no
\* map) leave every map exactly as it was: a failing ForceGet leaves no map
\* it created behind.
C30_NoSideEffect ==
    /\ (phase = "node" /\ call.op \in {"Get", "GetPath"}) => heap = heapBefore
    /\ ForceGetFailed => heap = heapBefore

\* ForceGet has returned NoNode from a node holding a map, because the first
\* of its two keys is held by a value that is no map.
C30_Witness ==
    /\ ForceGetFailed
    /\ call.op = "ForceGet"
    /\ call.self # NoNode
    /\ Len(call.keys) = 2
    /\ LET found == getFromMap(heapBefore, nodesBefore[call.self].Value, call.keys[1])
       IN found.ok /\ ~found.isMap

====
